---- MODULE Spec2Model ----
(***************************************************************************)
(* Component harvester MCP server (JSON index version).                    *)
(*                                                                         *)
(* Strings are sequences of one-character strings, so that the name-to-key *)
(* normalisation of the handlers and of the registry refreshes can be      *)
(* computed character by character, as the JavaScript does.                *)
(***************************************************************************)
EXTENDS Integers, Sequences, FiniteSets, Bags, TLC

VARIABLES
    pc,                      \* position of main(): refreshA, refreshS, load, connect, serving
    aceternityRegistryData,  \* key -> slug
    shadcnRegistryData,      \* key -> registry entry
    inMemoryIndexCache,      \* storage key -> IndexedComponentInfo
    indexFile,               \* harvested_index.json: Missing, Corrupt or the parsed map
    payloadFiles,            \* payload file path -> file (missing, corrupt or parsed content)
    inflight,                \* handlers suspended at an await
    lastOp,                  \* the response of the handler that completed last
    preRestart,              \* the record of the scan a restart directly followed
    normIn,                  \* key normaliser alone: a name and a respelling of it
    normOut                  \* key normaliser alone: the keys of the two

vars == <<pc, aceternityRegistryData, shadcnRegistryData, inMemoryIndexCache,
          indexFile, payloadFiles, inflight, lastOp, preRestart,
          normIn, normOut>>

\* the variables of the server
serverVars == <<pc, aceternityRegistryData, shadcnRegistryData, inMemoryIndexCache,
                indexFile, payloadFiles, inflight, lastOp, preRestart>>

\* the variables of the key normaliser taken alone
normVars == <<normIn, normOut>>

-----------------------------------------------------------------------------
(* Bounds *)

\* new Date() returns one of the instants 0..MaxClock: with 0 every scan
\* carries the same scanDate, with 1 a rescan can carry another one
MaxClock == 0

MaxInflight == 1

\* longest name the key normaliser is run on when taken alone
MaxNameLen == 3

-----------------------------------------------------------------------------
(* Characters and JavaScript string primitives *)

LowerChars == <<"a", "b", "d", "i", "n", "p", "t">>

UpperChars == <<"A", "B", "D", "I", "N", "P", "T">>

\* \s of a JavaScript regular expression, restricted to the characters used here
Whitespace == {" ", "\t"}

\* the character class [\s.-]
Separators == Whitespace \cup {".", "-"}

IndexIn(c, table) == CHOOSE i \in 1..Len(table) : table[i] = c

ToLowerChar(c) ==
    IF \E i \in 1..Len(UpperChars) : UpperChars[i] = c
    THEN LowerChars[IndexIn(c, UpperChars)]
    ELSE c

ToUpperChar(c) ==
    IF \E i \in 1..Len(LowerChars) : LowerChars[i] = c
    THEN UpperChars[IndexIn(c, LowerChars)]
    ELSE c

\* String.prototype.toLowerCase
ToLowerCase(s) == [i \in 1..Len(s) |-> ToLowerChar(s[i])]

\* part.charAt(0).toUpperCase() + part.slice(1)
Capitalize(part) ==
    IF part = <<>> THEN <<>>
    ELSE <<ToUpperChar(part[1])>> \o SubSeq(part, 2, Len(part))

\* s.split(/[\s.-]+/): a run of separators splits once; a leading or a
\* trailing run leaves an empty first or last part
SplitSeparators(s) ==
    LET F[i \in 0..Len(s)] ==
          IF i = 0 THEN << <<>> >>
          ELSE LET parts == F[i-1]
               IN IF s[i] \in Separators
                  THEN IF i > 1 /\ s[i-1] \in Separators
                       THEN parts
                       ELSE Append(parts, <<>>)
                  ELSE [parts EXCEPT ![Len(parts)] = Append(@, s[i])]
    IN F[Len(s)]

\* s.split('-'): every hyphen splits
SplitHyphen(s) ==
    LET F[i \in 0..Len(s)] ==
          IF i = 0 THEN << <<>> >>
          ELSE LET parts == F[i-1]
               IN IF s[i] = "-"
                  THEN Append(parts, <<>>)
                  ELSE [parts EXCEPT ![Len(parts)] = Append(@, s[i])]
    IN F[Len(s)]

\* parts.join(' ')
JoinSpace(parts) ==
    LET F[i \in 0..Len(parts)] ==
          IF i = 0 THEN <<>>
          ELSE IF i = 1 THEN parts[1]
          ELSE F[i-1] \o <<" ">> \o parts[i]
    IN F[Len(parts)]

\* a removal of the whitespace alone
StripSeparatorsMutantWhitespace(s) == SelectSeq(s, LAMBDA c : c \notin Whitespace)

\* s.replace(/\s+/g, '').replace(/[.-]/g, '')
StripSeparators(s) == SelectSeq(s, LAMBDA c : c \notin Separators)

\* rawComponentName.toLowerCase().split(/[\s.-]+/).map(capitalize).join(' ')
DisplayName(raw) ==
    LET parts == SplitSeparators(ToLowerCase(raw))
    IN JoinSpace([i \in 1..Len(parts) |-> Capitalize(parts[i])])

\* the key the scan and prompt handlers compute from a request string
NameKeyMutant(raw) ==
    LET parts == SplitSeparators(raw)
    IN StripSeparators(JoinSpace([i \in 1..Len(parts) |-> Capitalize(parts[i])]))

NameKey(raw) == StripSeparators(DisplayName(raw))

\* the key a registry refresh computes from a slug of the listing
RefreshKeyName(slug) ==
    LET parts == SplitHyphen(slug)
    IN StripSeparators(JoinSpace([i \in 1..Len(parts) |-> Capitalize(parts[i])]))

-----------------------------------------------------------------------------
(* JavaScript values *)

\* the value undefined, and a property that JSON.stringify dropped
Undef == <<"undefined">>

Absent == <<"absent">>

\* what || treats as false: undefined, a missing property, the empty string
Falsy(v) == v \in {Undef, Absent, <<>>}

Or(a, b) == IF Falsy(a) THEN b ELSE a

EmptyMap == [k \in {} |-> <<>>]

Put(m, k, v) == (k :> v) @@ m

\* JSON.parse(JSON.stringify(value)): a property holding undefined is dropped
JsonValue(v) == IF v = Undef THEN Absent ELSE v

JsonIndexEntry(e) ==
    [e EXCEPT !.name = JsonValue(@), !.slug = JsonValue(@),
              !.description = JsonValue(@), !.dependencies = JsonValue(@),
              !.registryDependencies = JsonValue(@)]

JsonIndex(indexData) == [k \in DOMAIN indexData |-> JsonIndexEntry(indexData[k])]

JsonComponentData(d) ==
    [d EXCEPT !.name = JsonValue(@), !.title = JsonValue(@),
              !.description = JsonValue(@), !.dependencies = JsonValue(@),
              !.registryDependencies = JsonValue(@)]

-----------------------------------------------------------------------------
(* Files *)

MissingFile == [state |-> "missing", data |-> EmptyMap]

CorruptFile == [state |-> "corrupt", data |-> EmptyMap]

OkFile(content) == [state |-> "ok", data |-> content]

\* path.relative(baseDataDir, path.join(sourceDataDir, '${slug}.json'))
ComponentJsonFilePath(source, slug) == <<source, "/">> \o slug \o <<".json">>

\* 'aceternity:${componentNameKey}', 'shadcn:${componentNameKey}'
ComponentStorageKey(source, key) == <<source, ":">> \o key

-----------------------------------------------------------------------------
(* What the network and the callers can send *)

N3DPin == <<"3", "D", " ", "P", "i", "n">>

N3dHyphenPin == <<"3", "d", "-", "p", "i", "n">>

N3dSpacePin == <<"3", "d", " ", "p", "i", "n">>

NdB == <<"d", "B">>

NBlank == <<" ">>

NEmpty == <<>>

\* componentName arguments of the tool requests
ReqNames == {NEmpty, NBlank, N3DPin}

\* displayNameForNormalization and componentNameKey of the handlers, for each
\* componentName a request can carry
displayNameForNormalization == [raw \in ReqNames |-> DisplayName(raw)]

componentNameKey == [raw \in ReqNames |-> NameKey(raw)]

\* componentURL argument: given or not
ReqURLs == {Undef, <<"u">>}

\* a name field that is truthy and not a string (a JSON number): slug.split
\* is not a function, and the loop of the refresh throws there
NumberName == <<"number">>

\* bodies of https://ui.aceternity.com/registry: a list of slugs
AceternityListings == { <<>>, <<N3dHyphenPin, NdB>>, <<N3dHyphenPin, NdB, NumberName>> }

ShadcnEntry(slug, deps, regDeps) ==
    [name |-> slug, type |-> "registry:ui", dependencies |-> deps,
     registryDependencies |-> regDeps, files |-> << <<"ui/">> \o slug \o <<".tsx">> >>]

\* bodies of https://ui.shadcn.com/registry: a list of registry entries
ShadcnListings ==
    { <<>>,
      << ShadcnEntry(N3dHyphenPin, <<"clsx", "react", "button">>, <<"cn", "button">>),
         ShadcnEntry(NdB, Undef, Undef) >>,
      << ShadcnEntry(N3dHyphenPin, <<"clsx", "react", "button">>, <<"cn", "button">>),
         ShadcnEntry(NdB, Undef, Undef),
         ShadcnEntry(NumberName, Undef, Undef) >> }

\* bodies of https://ui.aceternity.com/registry/<slug>.json: a payload with
\* fields that are given (description, registryDependencies, files) and
\* fields that are not (title, dependencies); the content of a file is its
\* text, cut into pieces
AceternityPayloads(slug) ==
    { [name |-> slug, title |-> Undef, description |-> <<"d">>,
       dependencies |-> Undef, registryDependencies |-> <<"utils">>,
       files |-> << [path |-> <<"components/ui/">> \o slug \o <<".tsx">>,
                     content |-> <<"import { cn } from \"@/", "lib/utils", "\";\n">>],
                    [path |-> <<"lib/">> \o slug \o <<".ts">>,
                     content |-> <<"export const x = 1;\n">>] >>] }

\* what axios.get(registryUrl) gives a refresh: a rejection, a JSON array,
\* or a JSON object, which for..of cannot iterate
FetchError == [kind |-> "error", body |-> <<>>]

RegistryResponses(listings) ==
    {FetchError, [kind |-> "object", body |-> <<>>]}
      \cup {[kind |-> "array", body |-> l] : l \in listings}

\* the names the registry bodies list
RegistryNames ==
    UNION ({{l[i] : i \in 1..Len(l)} : l \in AceternityListings}
           \cup {{l[i].name : i \in 1..Len(l)} : l \in ShadcnListings})

\* one character of each class a slug is made of: letter, digit, hyphen
SlugAlphabet == {"a", "3", "-"}

\* s is in kebab case: parts that are not empty, with one hyphen between
IsKebab(s) ==
    /\ s[1] # "-"
    /\ s[Len(s)] # "-"
    /\ \A i \in 1..(Len(s) - 1) : ~(s[i] = "-" /\ s[i+1] = "-")

\* the slugs in kebab case of at most MaxNameLen characters
KebabSlugs ==
    {s \in UNION {[1..n -> SlugAlphabet] : n \in 1..MaxNameLen} : IsKebab(s)}

\* keyName of the refresh loops (lines 126 and 171), for each listed name
keyName == [slug \in RegistryNames \cup KebabSlugs |-> RefreshKeyName(slug)]

\* how the file system calls of a scan can end: all succeed, the payload
\* write throws before or after truncating the file, the index write throws
\* before or after truncating the file
StoreOutcomes == {"ok", "payloadWriteError", "payloadWriteTorn",
                  "indexWriteError", "indexWriteTorn"}

-----------------------------------------------------------------------------
(* Registry caches *)

\* the entries the loop of a refresh processes before one of them throws
ThrowsAt(names) ==
    LET bad == {i \in 1..Len(names) : names[i] = NumberName}
    IN IF bad = {} THEN Len(names) + 1 ELSE CHOOSE i \in bad : \A j \in bad : i <= j

\* what a refresh logs (lines 135-147): the fetch failed, the processing of
\* the body threw, or the cache was refreshed
RefreshLog(kind, threw) ==
    << IF kind = "error" THEN "fetchFailed"
       ELSE IF threw THEN "processFailed" ELSE "ok" >>

\* lines 114-133: clear the cache, then store every slug under its key
RefreshAceternityFill(components) ==
    LET F[i \in 0..Len(components)] ==
          IF i = 0 THEN EmptyMap
          ELSE IF Falsy(components[i]) THEN F[i-1]
          ELSE Put(F[i-1], keyName[components[i]], components[i])
    IN F[Len(components)]

\* refreshAceternityRegistryCache: the cache it leaves, whether an exception
\* escaped it, and what it logged
refreshAceternityRegistryCache(cache, response) ==
    LET stop == IF response.kind = "array" THEN ThrowsAt(response.body) ELSE 0
        threw == response.kind = "object"
                 \/ (response.kind = "array" /\ stop <= Len(response.body))
    IN [cache |-> IF response.kind = "error" THEN cache
                  ELSE IF response.kind = "object" THEN EmptyMap
                  ELSE RefreshAceternityFill(SubSeq(response.body, 1, stop - 1)),
        raised |-> FALSE,
        log |-> RefreshLog(response.kind, threw)]

ShadcnNames(components) ==
    LET F[i \in 0..Len(components)] ==
          IF i = 0 THEN <<>> ELSE Append(F[i-1], components[i].name)
    IN F[Len(components)]

\* lines 159-178: clear the cache, then store every entry under its key
RefreshShadcnFill(components) ==
    LET F[i \in 0..Len(components)] ==
          IF i = 0 THEN EmptyMap
          ELSE IF Falsy(components[i].name) THEN F[i-1]
          ELSE Put(F[i-1], keyName[components[i].name], components[i])
    IN F[Len(components)]

\* refreshShadcnRegistryCache: as refreshAceternityRegistryCache
refreshShadcnRegistryCacheMutantClear(cache, response) ==
    LET stop == IF response.kind = "array" THEN ThrowsAt(ShadcnNames(response.body)) ELSE 0
        threw == response.kind = "object"
                 \/ (response.kind = "array" /\ stop <= Len(response.body))
    IN [cache |-> IF response.kind = "error" THEN EmptyMap
                  ELSE IF response.kind = "object" THEN EmptyMap
                  ELSE RefreshShadcnFill(SubSeq(response.body, 1, stop - 1)),
        raised |-> FALSE,
        log |-> RefreshLog(response.kind, threw)]

refreshShadcnRegistryCacheMutantKeep(cache, response) ==
    LET stop == IF response.kind = "array" THEN ThrowsAt(ShadcnNames(response.body)) ELSE 0
        threw == response.kind = "object"
                 \/ (response.kind = "array" /\ stop <= Len(response.body))
        filled == IF response.kind = "array"
                  THEN RefreshShadcnFill(SubSeq(response.body, 1, stop - 1))
                  ELSE EmptyMap
    IN [cache |-> IF response.kind = "error" THEN cache
                  ELSE [k \in DOMAIN cache \cup DOMAIN filled |->
                          IF k \in DOMAIN filled THEN filled[k] ELSE cache[k]],
        raised |-> FALSE,
        log |-> RefreshLog(response.kind, threw)]

refreshShadcnRegistryCache(cache, response) ==
    LET stop == IF response.kind = "array" THEN ThrowsAt(ShadcnNames(response.body)) ELSE 0
        threw == response.kind = "object"
                 \/ (response.kind = "array" /\ stop <= Len(response.body))
    IN [cache |-> IF response.kind = "error" THEN cache
                  ELSE IF response.kind = "object" THEN EmptyMap
                  ELSE RefreshShadcnFill(SubSeq(response.body, 1, stop - 1)),
        raised |-> FALSE,
        log |-> RefreshLog(response.kind, threw)]

-----------------------------------------------------------------------------
(* Index store *)

\* the result of loadIndexIntoMemoryCache: the cache it leaves and whether
\* an exception escaped it
loadIndexIntoMemoryCacheMutantRaise(file, cache) ==
    CASE file.state = "missing" -> [cache |-> cache, raised |-> FALSE]
      [] file.state = "corrupt" -> [cache |-> cache, raised |-> TRUE]
      [] OTHER -> [cache |-> file.data, raised |-> FALSE]

loadIndexIntoMemoryCacheMutantNoCopy(file, cache) ==
    CASE file.state = "missing" -> [cache |-> cache, raised |-> FALSE]
      [] file.state = "corrupt" -> [cache |-> EmptyMap, raised |-> FALSE]
      [] OTHER -> [cache |-> EmptyMap, raised |-> FALSE]

loadIndexIntoMemoryCache(file, cache) ==
    CASE file.state = "missing" -> [cache |-> cache, raised |-> FALSE]
      [] file.state = "corrupt" -> [cache |-> EmptyMap, raised |-> FALSE]
      [] OTHER -> [cache |-> file.data, raised |-> FALSE]

\* lines 575 and 675: inMemoryIndexCache[componentStorageLookupKey]
LookupIndexedInfo(cache, storageKey) ==
    IF storageKey \in DOMAIN cache THEN cache[storageKey] ELSE Undef

\* lines 361-369: the index a scan starts from
ReadIndexDataMutantNew(file) == EmptyMap

ReadIndexData(file) == IF file.state = "ok" THEN file.data ELSE EmptyMap

\* line 383: indexData[componentStorageKey] = newIndexEntry
MergeIndexEntryMutant(indexData, storageKey, entry) == indexData

\* a merge that keeps the record with the later lastScanned
MergeIndexEntryMutantNewest(indexData, storageKey, entry) ==
    IF storageKey \in DOMAIN indexData
          /\ indexData[storageKey].lastScanned > entry.lastScanned
    THEN indexData
    ELSE Put(indexData, storageKey, entry)

\* an index written with the record of the scan alone
MergeIndexEntryMutantAlone(indexData, storageKey, entry) == Put(EmptyMap, storageKey, entry)

MergeIndexEntry(indexData, storageKey, entry) == Put(indexData, storageKey, entry)

\* line 388: inMemoryIndexCache[componentStorageKey] = newIndexEntry
UpdateMemoryCacheMutant(cache, storageKey, entry) == cache

UpdateMemoryCache(cache, storageKey, entry) == Put(cache, storageKey, entry)

\* a scan that writes the index file and no payload file
StoreComponentMutantNoPayload(file, cache, payloads, source, key, slug, data, entry, io) ==
    LET path == ComponentJsonFilePath(source, slug)
        storageKey == ComponentStorageKey(source, key)
        written == Put(payloads, path, OkFile(JsonComponentData(data)))
        indexData == ReadIndexData(file)
        merged == MergeIndexEntry(indexData, storageKey, entry)
    IN CASE io = "payloadWriteError" ->
              [indexFile |-> file, cache |-> cache, payloadFiles |-> payloads,
               status |-> "InternalError"]
         [] io = "payloadWriteTorn" ->
              [indexFile |-> file, cache |-> cache,
               payloadFiles |-> Put(payloads, path, CorruptFile),
               status |-> "InternalError"]
         [] io = "indexWriteError" ->
              [indexFile |-> file, cache |-> cache, payloadFiles |-> written,
               status |-> "InternalError"]
         [] io = "indexWriteTorn" ->
              [indexFile |-> CorruptFile, cache |-> cache, payloadFiles |-> written,
               status |-> "InternalError"]
         [] OTHER ->
              [indexFile |-> OkFile(JsonIndex(merged)),
               cache |-> UpdateMemoryCache(cache, storageKey, entry),
               payloadFiles |-> payloads, status |-> "ok"]

\* lines 347-388 and 502-547: write the payload file, read-merge-write the
\* index file, update the cache; the first write that throws ends the scan
StoreComponent(file, cache, payloads, source, key, slug, data, entry, io) ==
    LET path == ComponentJsonFilePath(source, slug)
        storageKey == ComponentStorageKey(source, key)
        written == Put(payloads, path, OkFile(JsonComponentData(data)))
        indexData == ReadIndexData(file)
        merged == MergeIndexEntry(indexData, storageKey, entry)
    IN CASE io = "payloadWriteError" ->
              [indexFile |-> file, cache |-> cache, payloadFiles |-> payloads,
               status |-> "InternalError"]
         [] io = "payloadWriteTorn" ->
              [indexFile |-> file, cache |-> cache,
               payloadFiles |-> Put(payloads, path, CorruptFile),
               status |-> "InternalError"]
         [] io = "indexWriteError" ->
              [indexFile |-> file, cache |-> cache, payloadFiles |-> written,
               status |-> "InternalError"]
         [] io = "indexWriteTorn" ->
              [indexFile |-> CorruptFile, cache |-> cache, payloadFiles |-> written,
               status |-> "InternalError"]
         [] OTHER ->
              [indexFile |-> OkFile(JsonIndex(merged)),
               cache |-> UpdateMemoryCache(cache, storageKey, entry),
               payloadFiles |-> written, status |-> "ok"]

\* lines 372-382
NewAceternityIndexEntry(raw, slug, componentData, scanDate) ==
    [name |-> Or(componentData.title, Or(componentData.name, raw)),
     source |-> "aceternity",
     slug |-> slug,
     description |-> Or(componentData.description, <<>>),
     filePath |-> ComponentJsonFilePath("aceternity", slug),
     jsonUrl |-> <<"https://ui.aceternity.com/registry/">> \o slug \o <<".json">>,
     lastScanned |-> scanDate,
     dependencies |-> Or(componentData.dependencies, <<>>),
     registryDependencies |-> Or(componentData.registryDependencies, <<>>)]

\* line 495: the content stored for the file f of the registry entry slug
PlaceholderContent(f, slug) ==
    <<"// Content for ">> \o f
       \o <<" is typically added by 'npx shadcn-ui@latest add ">> \o slug \o <<"'">>

\* lines 489-498
ShadcnComponentDataForStorage(raw, registryEntry) ==
    [name |-> registryEntry.name,
     title |-> displayNameForNormalization[raw],
     type |-> registryEntry.type,
     description |-> Undef,
     dependencies |-> registryEntry.dependencies,
     registryDependencies |-> registryEntry.registryDependencies,
     files |-> [i \in 1..Len(registryEntry.files) |->
                  [path |-> registryEntry.files[i],
                   content |-> PlaceholderContent(registryEntry.files[i],
                                                  registryEntry.name)]],
     author |-> "shadcn"]

\* lines 529-540
NewShadcnIndexEntry(raw, slug, componentData, scanDate) ==
    [name |-> displayNameForNormalization[raw],
     source |-> "shadcn",
     slug |-> slug,
     description |-> Or(componentData.description,
                        <<"shadcn UI ">> \o slug \o <<" component">>),
     filePath |-> ComponentJsonFilePath("shadcn", slug),
     jsonUrl |-> <<"https://ui.shadcn.com/registry#">> \o slug,
     lastScanned |-> scanDate,
     dependencies |-> Or(componentData.dependencies, <<>>),
     registryDependencies |-> Or(componentData.registryDependencies, <<>>)]

-----------------------------------------------------------------------------
(* Responses *)

\* no key was formed, no record was involved
NoKey == <<"nokey">>

\* what the caller gets: "ok" is a result, "isError" a result flagged
\* isError, "InvalidParams" and "InternalError" a thrown McpError; key is the
\* key the handler formed from componentName
NoRec == <<>>

\* the handler awaited no registry refresh
NoRefresh == <<>>

\* the response carries no text the properties look at
NoText == <<>>

Response(tool, status, key) ==
    [tool |-> tool, status |-> status, key |-> key, rec |-> NoRec,
     refresh |-> NoRefresh, text |-> NoText, lines |-> {}]

\* content: [{ type: "text", text }] of a result
WithText(response, text) == [response EXCEPT !.text = text]

\* a result whose text is a list: the lines of the list
WithLines(response, lines) == [response EXCEPT !.lines = lines]

\* the response of a scan; rec is the newIndexEntry of a scan that succeeded
ScanResponse(tool, status, key, entry) ==
    [tool |-> tool, status |-> status, key |-> key,
     rec |-> IF status = "ok" THEN entry ELSE NoRec,
     refresh |-> NoRefresh, text |-> NoText, lines |-> {}]

\* a response of an operation that awaited registry refreshes: refresh is
\* what these logged, in order
Refreshed(response, log) == [response EXCEPT !.refresh = log]

NoScan == [key |-> NoKey, rec |-> NoRec]

ScanTools == {"scan_aceternity_component", "scan_shadcn_component"}

SourceOf(tool) == IF tool = "scan_aceternity_component" THEN "aceternity" ELSE "shadcn"

\* a handler suspended at its await
Pending(tool, raw, key, slug, scanDate) ==
    [tool |-> tool, raw |-> raw, key |-> key, slug |-> slug, scanDate |-> scanDate]

\* the key the hardcoded override of scan_aceternity_component tests for
HardcodedKey == <<"3", "D", "P", "i", "n">>

HardcodedSlug == N3dHyphenPin

\* the override taken before the registry cache is asked
ResolveAceternitySlugMutantOverrideFirst(cache, key) ==
    IF key = HardcodedKey THEN HardcodedSlug
    ELSE IF key \in DOMAIN cache THEN cache[key] ELSE Undef

\* lines 321-327: the slug of the registry cache, else the hardcoded one
ResolveAceternitySlug(cache, key) ==
    LET slug == IF key \in DOMAIN cache THEN cache[key] ELSE Undef
    IN IF key = HardcodedKey /\ Falsy(slug) THEN HardcodedSlug ELSE slug

-----------------------------------------------------------------------------
(* Startup: main() *)

ServerInit ==
    /\ pc = "refreshA"
    /\ aceternityRegistryData = EmptyMap
    /\ shadcnRegistryData = EmptyMap
    /\ inMemoryIndexCache = EmptyMap
    /\ indexFile \in {MissingFile, CorruptFile}
    /\ payloadFiles = EmptyMap
    /\ inflight = {}
    /\ lastOp = Response("none", "none", NoKey)
    /\ preRestart = NoScan

Init ==
    /\ ServerInit
    /\ normIn = <<>>
    /\ normOut = <<>>

\* line 750: await refreshAceternityRegistryCache()
StartupRefreshAceternity ==
    /\ pc = "refreshA"
    /\ \E response \in RegistryResponses(AceternityListings) :
         LET refreshed == refreshAceternityRegistryCache(aceternityRegistryData, response)
         IN /\ aceternityRegistryData' = refreshed.cache
            /\ pc' = IF refreshed.raised THEN "exited" ELSE "refreshS"
            /\ lastOp' = Refreshed(Response("main", "refreshed", NoKey), refreshed.log)
    /\ UNCHANGED <<shadcnRegistryData, inMemoryIndexCache, indexFile, payloadFiles,
                   inflight, preRestart, normVars>>

\* line 751: await refreshShadcnRegistryCache()
StartupRefreshShadcn ==
    /\ pc = "refreshS"
    /\ \E response \in RegistryResponses(ShadcnListings) :
         LET refreshed == refreshShadcnRegistryCache(shadcnRegistryData, response)
         IN /\ shadcnRegistryData' = refreshed.cache
            /\ pc' = IF refreshed.raised THEN "exited" ELSE "load"
            /\ lastOp' = Refreshed(Response("main", "refreshed", NoKey),
                                   lastOp.refresh \o refreshed.log)
    /\ UNCHANGED <<aceternityRegistryData, inMemoryIndexCache, indexFile, payloadFiles,
                   inflight, preRestart, normVars>>

\* line 752: loadIndexIntoMemoryCache(); an exception would end main() in
\* process.exit(1) (lines 757-760)
StartupLoadIndex ==
    /\ pc = "load"
    /\ LET loaded == loadIndexIntoMemoryCache(indexFile, inMemoryIndexCache)
       IN /\ inMemoryIndexCache' = loaded.cache
          /\ pc' = IF loaded.raised THEN "exited" ELSE "connect"
    /\ lastOp' = Response("load", indexFile.state, NoKey)
    /\ UNCHANGED <<aceternityRegistryData, shadcnRegistryData, indexFile, payloadFiles,
                   inflight, preRestart, normVars>>

\* line 753: await server.connect(transport); requests are served from here
StartupConnect ==
    /\ pc = "connect"
    /\ pc' = "serving"
    /\ preRestart' = NoScan
    /\ UNCHANGED <<aceternityRegistryData, shadcnRegistryData, inMemoryIndexCache,
                   indexFile, payloadFiles, inflight, lastOp, normVars>>

\* the process ends and is started again: lines 57-69 run anew, the files stay
Restart ==
    /\ pc' = "refreshA"
    /\ aceternityRegistryData' = EmptyMap
    /\ shadcnRegistryData' = EmptyMap
    /\ inMemoryIndexCache' = EmptyMap
    /\ inflight' = {}
    /\ preRestart' =
          IF lastOp.tool \in ScanTools /\ lastOp.status = "ok"
          THEN [key |-> ComponentStorageKey(SourceOf(lastOp.tool), lastOp.key),
                rec |-> lastOp.rec]
          ELSE NoScan
    /\ lastOp' = Response("restart", "none", NoKey)
    /\ UNCHANGED <<indexFile, payloadFiles, normVars>>

-----------------------------------------------------------------------------
(* Tool handlers; one request handler runs until it returns or awaits *)

Respond(response) ==
    /\ lastOp' = response
    /\ UNCHANGED <<pc, aceternityRegistryData, shadcnRegistryData, inMemoryIndexCache,
                   indexFile, payloadFiles, inflight, preRestart, normVars>>

Suspend(pending) ==
    /\ Cardinality(inflight) < MaxInflight
    /\ pending \notin inflight
    /\ inflight' = inflight \cup {pending}
    /\ UNCHANGED <<pc, aceternityRegistryData, shadcnRegistryData, inMemoryIndexCache,
                   indexFile, payloadFiles, lastOp, preRestart, normVars>>

\* scan_aceternity_component, lines 301-343: up to the await of axios.get
ScanAceternityComponent(raw, url) ==
    /\ pc = "serving"
    /\ LET tool == "scan_aceternity_component"
           key == componentNameKey[raw]
           slug == ResolveAceternitySlug(aceternityRegistryData, key)
       IN IF Falsy(raw)
          THEN Respond(Response(tool, "InvalidParams", NoKey))
          ELSE IF Falsy(slug)
          THEN IF Falsy(url)
               THEN Respond(Response(tool, "InvalidParams", key))
               ELSE Respond(Response(tool, "InternalError", key))
          ELSE \E scanDate \in 0..MaxClock :
                 Suspend(Pending(tool, raw, key, slug, scanDate))

\* lines 394-404: the message of the McpError a scan_aceternity_component
\* throws from its catch block, for an error of axios and for another error
ScanErrorText(raw, isAxiosError) ==
    <<"Failed to process component ">> \o raw \o <<".">>
       \o (IF isAxiosError THEN <<" Axios error: ">> ELSE <<" Error: ">>)

\* scan_aceternity_component with a catch block that fetches again
ScanAceternityFetchFailedMutantRetry(p) ==
    /\ pc = "serving"
    /\ p \in inflight
    /\ p.tool = "scan_aceternity_component"
    /\ inflight' = inflight
    /\ lastOp' = Response(p.tool, "retrying", p.key)
    /\ UNCHANGED <<pc, aceternityRegistryData, shadcnRegistryData, inMemoryIndexCache,
                   indexFile, payloadFiles, preRestart, normVars>>

\* a catch block that leaves an empty payload file behind
ScanAceternityFetchFailedMutantStub(p) ==
    /\ pc = "serving"
    /\ p \in inflight
    /\ p.tool = "scan_aceternity_component"
    /\ inflight' = inflight \ {p}
    /\ payloadFiles' = Put(payloadFiles, ComponentJsonFilePath("aceternity", p.slug),
                           CorruptFile)
    /\ lastOp' = WithText(Response(p.tool, "InternalError", p.key),
                          ScanErrorText(p.raw, TRUE))
    /\ UNCHANGED <<pc, aceternityRegistryData, shadcnRegistryData, inMemoryIndexCache,
                   indexFile, preRestart, normVars>>

\* scan_aceternity_component, lines 343-405: axios.get rejected
ScanAceternityFetchFailed(p) ==
    /\ pc = "serving"
    /\ p \in inflight
    /\ p.tool = "scan_aceternity_component"
    /\ inflight' = inflight \ {p}
    /\ lastOp' = WithText(Response(p.tool, "InternalError", p.key),
                          ScanErrorText(p.raw, TRUE))
    /\ UNCHANGED <<pc, aceternityRegistryData, shadcnRegistryData, inMemoryIndexCache,
                   indexFile, payloadFiles, preRestart, normVars>>

\* scan_aceternity_component, lines 343-405: axios.get resolved
ScanAceternityFetched(p, componentData, io) ==
    /\ pc = "serving"
    /\ p \in inflight
    /\ p.tool = "scan_aceternity_component"
    /\ LET entry == NewAceternityIndexEntry(p.raw, p.slug, componentData, p.scanDate)
           stored == StoreComponent(indexFile, inMemoryIndexCache, payloadFiles,
                                    "aceternity", p.key, p.slug, componentData, entry, io)
       IN /\ indexFile' = stored.indexFile
          /\ inMemoryIndexCache' = stored.cache
          /\ payloadFiles' = stored.payloadFiles
          /\ lastOp' = IF stored.status = "ok"
                       THEN ScanResponse(p.tool, stored.status, p.key, entry)
                       ELSE WithText(ScanResponse(p.tool, stored.status, p.key, entry),
                                     ScanErrorText(p.raw, FALSE))
    /\ inflight' = inflight \ {p}
    /\ UNCHANGED <<pc, aceternityRegistryData, shadcnRegistryData, preRestart, normVars>>

\* scan_shadcn_component, lines 468-557, run against the registry cache given
ScanShadcnBody(raw, registry, log) ==
    LET tool == "scan_shadcn_component"
        key == componentNameKey[raw]
    IN IF key \notin DOMAIN registry
       THEN /\ lastOp' = Refreshed(Response(tool, "isError", key), log)
            /\ UNCHANGED <<indexFile, inMemoryIndexCache, payloadFiles>>
       ELSE \E io \in StoreOutcomes, scanDate \in 0..MaxClock :
            LET registryEntry == registry[key]
                slug == registryEntry.name
                componentData == ShadcnComponentDataForStorage(raw, registryEntry)
                entry == NewShadcnIndexEntry(raw, slug, componentData, scanDate)
                stored == StoreComponent(indexFile, inMemoryIndexCache, payloadFiles,
                                         "shadcn", key, slug, componentData, entry, io)
            IN /\ indexFile' = stored.indexFile
               /\ inMemoryIndexCache' = stored.cache
               /\ payloadFiles' = stored.payloadFiles
               /\ lastOp' = Refreshed(ScanResponse(tool, stored.status, key, entry), log)

\* scan_shadcn_component, lines 451-466: with an empty registry cache the
\* handler awaits a refresh, otherwise it runs to its end
ScanShadcnComponent(raw) ==
    /\ pc = "serving"
    /\ LET tool == "scan_shadcn_component"
       IN IF Falsy(raw)
          THEN Respond(Response(tool, "InvalidParams", NoKey))
          ELSE IF DOMAIN shadcnRegistryData = {}
          THEN Suspend(Pending(tool, raw, NoKey, <<>>, 0))
          ELSE /\ ScanShadcnBody(raw, shadcnRegistryData, NoRefresh)
               /\ UNCHANGED <<pc, aceternityRegistryData, shadcnRegistryData,
                              inflight, preRestart, normVars>>

\* scan_shadcn_component, line 465 onwards: the awaited refresh has ended
ScanShadcnRefreshed(p, response) ==
    /\ pc = "serving"
    /\ p \in inflight
    /\ p.tool = "scan_shadcn_component"
    /\ LET refreshed == refreshShadcnRegistryCache(shadcnRegistryData, response)
       IN /\ shadcnRegistryData' = refreshed.cache
          /\ IF refreshed.raised
             THEN /\ lastOp' = Refreshed(Response(p.tool, "InternalError", NoKey),
                                         refreshed.log)
                  /\ UNCHANGED <<indexFile, inMemoryIndexCache, payloadFiles>>
             ELSE ScanShadcnBody(p.raw, refreshed.cache, refreshed.log)
    /\ inflight' = inflight \ {p}
    /\ UNCHANGED <<pc, aceternityRegistryData, preRestart, normVars>>

RECURSIVE Join(_, _)
\* Array.prototype.join of an array of strings
Join(items, sep) ==
    IF Len(items) = 0 THEN <<>>
    ELSE IF Len(items) = 1 THEN <<items[1]>>
    ELSE <<items[1], sep>> \o Join(Tail(items), sep)

\* String.prototype.includes, for a content cut into pieces
Includes(content, piece) == \E i \in 1..Len(content) : content[i] = piece

\* The texts of the prompts are sequences of pieces; a code fence and a
\* backquote of the source are written with apostrophes here.

\* lines 605-611 and 705-711: the setup every prompt asks to verify
SetupText ==
    <<"Please verify your project has the following setup:\n",
      "- shadcn/ui project structure (check for components.json, lib/utils.ts)\n",
      "- Tailwind CSS (check for tailwind.config.ts)\n",
      "- TypeScript (check for tsconfig.json)\n\n",
      "If any of these are missing, provide instructions on how to set them up.\n\n",
      "Determine the default path for components.\n",
      "If the default path for components is not 'components/ui', explain why.\n\n">>

\* lines 639-645 and 721-727: the cn utility, as lib/utils.ts has it
CnText ==
    <<"'''ts\n", "import { type ClassValue, clsx } from \"clsx\"\n",
      "import { twMerge } from \"tailwind-merge\"\n\n",
      "export function cn(...inputs: ClassValue[]) {\n",
      "  return twMerge(clsx(inputs))\n", "}\n", "'''\n\n">>

\* lines 715-716: what the prompt of aceternity says of one file
FileBlock(file) ==
    <<"Copy-paste this component to '">> \o file.path \o <<"':\n">>
       \o <<"File content:\n'''tsx\n">> \o file.content \o <<"\n'''\n\n">>

\* lines 713-717: componentData.files.forEach
FileBlocksMutantNoContent(files) ==
    LET F[i \in 0..Len(files)] ==
          IF i = 0 THEN <<>>
          ELSE F[i-1] \o <<"Copy-paste this component to '">> \o files[i].path
                      \o <<"':\n">>
    IN F[Len(files)]

FileBlocks(files) ==
    LET F[i \in 0..Len(files)] ==
          IF i = 0 THEN <<>> ELSE F[i-1] \o FileBlock(files[i])
    IN F[Len(files)]

\* lines 702-731: the prompt of get_aceternity_component_prompt
AceternityPrompt(raw, componentData) ==
    LET displayName == Or(componentData.title, Or(componentData.name, raw))
        usesCn ==
          \/ /\ ~Falsy(componentData.dependencies)
             /\ Includes(componentData.dependencies, "cn")
          \/ \E i \in 1..Len(componentData.files) :
                \/ Includes(componentData.files[i].content, "@/lib/utils")
                \/ Includes(componentData.files[i].content, "lib/utils")
    IN <<"You are given a task to integrate the '">> \o displayName
         \o <<"' React component from Aceternity UI into your codebase.\n\n">>
         \o SetupText
         \o FileBlocks(componentData.files)
         \o (IF usesCn
             THEN <<"This component uses the 'cn' utility function. Ensure you have 'lib/utils.ts' set up by shadcn/ui, which typically contains:\n">>
                     \o CnText
             ELSE <<>>)
         \o <<"After adding the files, import and use the main component (e.g., '">>
         \o displayName \o <<"') in your application where needed.">>

\* line 615: the command of the shadcn CLI for a slug
InstallCommandMutantName(slug, displayName) ==
    <<"'''bash\nnpx shadcn-ui@latest add ">> \o displayName \o <<"\n'''\n\n">>

InstallCommand(slug, displayName) ==
    <<"'''bash\nnpx shadcn-ui@latest add ">> \o slug \o <<"\n'''\n\n">>

\* lines 618-625: the paths of the files, one per line
FilePathLines(files) ==
    LET F[i \in 0..Len(files)] ==
          IF i = 0 THEN <<>> ELSE F[i-1] \o <<"- ">> \o files[i].path \o <<"\n">>
    IN F[Len(files)]

\* a filter that keeps the registry dependencies among the external ones
ExternalDepsMutantAll(componentData) ==
    SelectSeq(componentData.dependencies,
              LAMBDA dep : dep \notin {"cn", "react", "tailwindcss"})

\* line 653: the dependencies that are no registry dependency and none of
\* cn, react, tailwindcss
ExternalDeps(componentData) ==
    LET registryDependencies == Or(componentData.registryDependencies, <<>>)
        IsExternal(dep) == /\ dep \notin {"cn", "react", "tailwindcss"}
                           /\ ~Includes(registryDependencies, dep)
    IN SelectSeq(componentData.dependencies, IsExternal)

\* lines 602-659: the prompt of get_shadcn_component_prompt
ShadcnPrompt(raw, indexedInfo, componentData) ==
    LET displayName == Or(componentData.title, Or(componentData.name, raw))
    IN <<"You are given a task to integrate the '">> \o displayName
         \o <<"' React component from shadcn UI into your codebase.\n\n">>
         \o SetupText
         \o <<"To add the '">> \o displayName
         \o <<"' component to your project, run the following command:\n\n">>
         \o InstallCommand(indexedInfo.slug, displayName)
         \o <<"This command will install the component and its necessary dependencies into your project.\n\n">>
         \o (IF Len(componentData.files) > 0
             THEN <<"The following file(s) will typically be added or modified in your project (usually under 'components/ui'):\n">>
                     \o FilePathLines(componentData.files) \o <<"\n">>
             ELSE <<>>)
         \o <<"Many shadcn UI components use the 'cn' utility function. Ensure you have 'lib/utils.ts' set up (this is done by 'npx shadcn-ui@latest init'), which typically contains:\n">>
         \o CnText
         \o <<"After adding the files (if provided), import and use the main component (e.g., '">>
         \o displayName \o <<"') in your application where needed.">>
         \o (IF ~Falsy(componentData.registryDependencies)
             THEN <<"\nThis component has registry dependencies: ">>
                     \o Join(componentData.registryDependencies, ", ")
                     \o <<". You might need to install them separately using the shadcn CLI (e.g., 'npx shadcn@latest add dependency-name').\n">>
             ELSE <<>>)
         \o (IF ~Falsy(componentData.dependencies)
                  /\ Len(ExternalDeps(componentData)) > 0
             THEN <<"\nThis component also has external npm dependencies: ">>
                     \o Join(ExternalDeps(componentData), ", ")
                     \o <<". Ensure these are installed in your project (e.g., 'pnpm add ">>
                     \o Join(ExternalDeps(componentData), " ") \o <<"').\n">>
             ELSE <<>>)

\* lines 579 and 679: the text of the result for a key the index lacks
NotInIndexText(source, raw, lookupKey) ==
    (IF source = "shadcn" THEN <<"Shadcn component '">> ELSE <<"Component '">>)
       \o raw \o <<"' (key: ">> \o lookupKey
       \o <<") not found in index. Try scanning it first.">>

\* lines 587 and 687: the text of the result for a payload file that is gone
DataFileNotFoundText(source, indexedInfo) ==
    (IF source = "shadcn" THEN <<"Shadcn component data file not found at ">>
     ELSE <<"Component data file not found at ">>)
       \o indexedInfo.filePath \o <<" for '">> \o indexedInfo.name
       \o <<"'. Index might be stale.">>

\* lines 597 and 697: the text of the result for a payload file that does
\* not parse
DataFileParseErrorText(source, indexedInfo) ==
    (IF source = "shadcn" THEN <<"Error parsing Shadcn component data file ">>
     ELSE <<"Error parsing component data file ">>)
       \o indexedInfo.filePath

PromptTool(source) ==
    IF source = "shadcn" THEN "get_shadcn_component_prompt"
    ELSE "get_aceternity_component_prompt"

\* the prompt handlers with a lookup that throws for a key the index lacks
PromptResponseMutantThrow(source, raw, cache, payloads) ==
    LET tool == PromptTool(source)
        key == componentNameKey[raw]
        lookupKey == ComponentStorageKey(source, key)
    IN IF Falsy(raw)
       THEN Response(tool, "InvalidParams", NoKey)
       ELSE IF lookupKey \notin DOMAIN cache
       THEN Response(tool, "InvalidParams", key)
       ELSE WithText(Response(tool, "isError", key),
                     DataFileNotFoundText(source, cache[lookupKey]))

\* get_aceternity_component_prompt and get_shadcn_component_prompt,
\* lines 562-660 and 663-732: what the handler returns or throws, given the
\* cache of the index and the payload files
PromptResponse(source, raw, cache, payloads) ==
    LET tool == PromptTool(source)
        key == componentNameKey[raw]
        lookupKey == ComponentStorageKey(source, key)
        indexedInfo == LookupIndexedInfo(cache, lookupKey)
    IN IF Falsy(raw)
       THEN Response(tool, "InvalidParams", NoKey)
       ELSE IF lookupKey \notin DOMAIN cache
       THEN WithText(Response(tool, "isError", key),
                     NotInIndexText(source, raw, lookupKey))
       ELSE IF indexedInfo.filePath \notin DOMAIN payloads
       THEN WithText(Response(tool, "isError", key),
                     DataFileNotFoundText(source, indexedInfo))
       ELSE IF payloads[indexedInfo.filePath].state # "ok"
       THEN WithText(Response(tool, "isError", key),
                     DataFileParseErrorText(source, indexedInfo))
       ELSE LET componentData == payloads[indexedInfo.filePath].data
            IN WithText(Response(tool, "ok", key),
                        IF source = "shadcn"
                        THEN ShadcnPrompt(raw, indexedInfo, componentData)
                        ELSE AceternityPrompt(raw, componentData))

\* get_aceternity_component_prompt and get_shadcn_component_prompt with a
\* handler that drops the record of a payload file it cannot parse
GetComponentPromptMutantEvict(source, raw) ==
    /\ pc = "serving"
    /\ LET response == PromptResponse(source, raw, inMemoryIndexCache, payloadFiles)
           lookupKey == ComponentStorageKey(source, componentNameKey[raw])
       IN /\ lastOp' = response
          /\ inMemoryIndexCache' =
                IF response.status = "isError" /\ lookupKey \in DOMAIN inMemoryIndexCache
                THEN [k \in DOMAIN inMemoryIndexCache \ {lookupKey} |->
                         inMemoryIndexCache[k]]
                ELSE inMemoryIndexCache
    /\ UNCHANGED <<pc, aceternityRegistryData, shadcnRegistryData, indexFile,
                   payloadFiles, inflight, preRestart, normVars>>

GetComponentPrompt(source, raw) ==
    /\ pc = "serving"
    /\ Respond(PromptResponse(source, raw, inMemoryIndexCache, payloadFiles))

\* the source argument of list_harvested_components; "" is an argument that
\* is missing or empty
ReqSources == {"", "all", "aceternity", "shadcn"}

\* lines 410-414, with the records taken from the index file
componentsToListMutantDisk(cache, source) ==
    LET sourceFilter == IF source = "" THEN "all" ELSE source
        onDisk == IF indexFile.state = "ok" THEN indexFile.data ELSE EmptyMap
        keys == {k \in DOMAIN onDisk :
                    sourceFilter = "all" \/ onDisk[k].source = sourceFilter}
    IN [r \in {onDisk[k] : k \in keys} |-> Cardinality({k \in keys : onDisk[k] = r})]

\* lines 410-414: Object.values(inMemoryIndexCache).filter(...), as the bag of
\* the records listed
componentsToListMutantNoAll(cache, source) ==
    LET keys == {k \in DOMAIN cache : cache[k].source = source}
    IN [r \in {cache[k] : k \in keys} |-> Cardinality({k \in keys : cache[k] = r})]

componentsToListMutantNoFilter(cache, source) ==
    [r \in {cache[k] : k \in DOMAIN cache} |->
        Cardinality({k \in DOMAIN cache : cache[k] = r})]

componentsToList(cache, source) ==
    LET sourceFilter == IF source = "" THEN "all" ELSE source
        keys == {k \in DOMAIN cache :
                    sourceFilter = "all" \/ cache[k].source = sourceFilter}
    IN [r \in {cache[k] : k \in keys} |-> Cardinality({k \in keys : cache[k] = r})]

\* line 420: the line of the list for a record
HarvestedLine(c) ==
    <<"- ">> \o c.name \o <<" (Source: ", c.source, ", Slug: ">> \o c.slug
       \o <<", Scanned: ", ToString(c.lastScanned), ")">>

\* list_harvested_components, lines 408-422; the lines of the text are
\* given as a set
ListHarvestedComponents(source) ==
    /\ pc = "serving"
    /\ LET listed == componentsToList(inMemoryIndexCache, source)
       IN Respond(WithLines(Response("list_harvested_components",
                                     IF listed = EmptyBag THEN "empty" ELSE "ok",
                                     NoKey),
                            {HarvestedLine(c) : c \in DOMAIN listed}))

\* list_shadcn_components, lines 427-434: one line for every key of
\* Object.keys(shadcnRegistryData); the keys of a map differ, so do the lines
componentNamesMutantKey(registry) ==
    {key \o <<" (slug: ">> \o key \o <<")">> : key \in DOMAIN registry}

componentNames(registry) ==
    {key \o <<" (slug: ">> \o registry[key].name \o <<")">> : key \in DOMAIN registry}

\* list_shadcn_components, lines 424-448
ListShadcnComponents ==
    /\ pc = "serving"
    /\ LET lines == componentNames(shadcnRegistryData)
       IN Respond(WithLines(Response("list_shadcn_components",
                                     IF lines = {} THEN "empty" ELSE "ok", NoKey),
                            lines))

\* main(), lines 739-755
Startup ==
    \/ StartupRefreshAceternity
    \/ StartupRefreshShadcn
    \/ StartupLoadIndex
    \/ StartupConnect

\* the request handler, lines 298-737
Serve ==
    \/ \E raw \in ReqNames, url \in ReqURLs : ScanAceternityComponent(raw, url)
    \/ \E p \in inflight : ScanAceternityFetchFailed(p)
    \/ \E p \in inflight, io \in StoreOutcomes :
         \E componentData \in AceternityPayloads(p.slug) :
            ScanAceternityFetched(p, componentData, io)
    \/ \E raw \in ReqNames : ScanShadcnComponent(raw)
    \/ \E p \in inflight :
         \E response \in RegistryResponses(ShadcnListings) :
            ScanShadcnRefreshed(p, response)
    \/ \E source \in {"aceternity", "shadcn"}, raw \in ReqNames :
         GetComponentPrompt(source, raw)
    \/ \E source \in ReqSources : ListHarvestedComponents(source)
    \/ ListShadcnComponents

Next == Startup \/ Restart \/ Serve

Spec == Init /\ [][Next]_vars

\* one run of the process, from its start: every step of main() is taken
\* once the awaited call has returned
NextRun == Startup \/ Serve

SpecRun == Init /\ [][NextRun]_vars /\ WF_vars(Startup)

\* the server at the moment two scan_shadcn_component requests, received
\* while the registry cache of shadcn was empty, both await their refresh
InitRegistry ==
    /\ pc = "serving"
    /\ aceternityRegistryData \in
          {refreshAceternityRegistryCache(EmptyMap, response).cache :
              response \in RegistryResponses(AceternityListings)}
    /\ shadcnRegistryData = EmptyMap
    /\ inMemoryIndexCache = EmptyMap
    /\ indexFile \in {MissingFile, CorruptFile}
    /\ payloadFiles = EmptyMap
    /\ inflight = {Pending("scan_shadcn_component", raw, NoKey, <<>>, 0) :
                      raw \in {NBlank, N3DPin}}
    /\ lastOp = Response("list_shadcn_components", "empty", NoKey)
    /\ preRestart = NoScan
    /\ normIn = <<>>
    /\ normOut = <<>>

SpecRegistry == InitRegistry /\ [][Next]_vars

-----------------------------------------------------------------------------
(* The index store with another writer of the index file: a second server  *)
(* on the same data directory, or an editor.  The server serves; a scan of *)
(* "3D Pin" that started later has already stored its record, and the one  *)
(* that started first still awaits its fetch.                              *)

\* the record a second server stores when it scans "dB"; this server is
\* never asked to scan it
ForeignKey == ComponentStorageKey("aceternity", keyName[NdB])

ForeignEntry ==
    LET componentData == CHOOSE d \in AceternityPayloads(NdB) : TRUE
    IN JsonIndexEntry(NewAceternityIndexEntry(NdB, NdB, componentData, 0))

\* lines 59-61, 361-369: the index file is a file of the data directory,
\* and what a scan finds in it is what its last writer left: a record
\* added or a record removed by the other writer
ExternalIndexEdit ==
    /\ pc = "serving"
    /\ indexFile.state = "ok"
    /\ \/ /\ ForeignKey \notin DOMAIN indexFile.data
          /\ indexFile' = OkFile(Put(indexFile.data, ForeignKey, ForeignEntry))
       \/ \E gone \in DOMAIN indexFile.data :
             indexFile' = OkFile([k \in DOMAIN indexFile.data \ {gone} |->
                                     indexFile.data[k]])
    /\ lastOp' = Response("external edit", "none", NoKey)
    /\ UNCHANGED <<pc, aceternityRegistryData, shadcnRegistryData, inMemoryIndexCache,
                   payloadFiles, inflight, preRestart, normVars>>

InitStore ==
    /\ pc = "serving"
    /\ aceternityRegistryData =
          refreshAceternityRegistryCache(
             EmptyMap, [kind |-> "array", body |-> <<N3dHyphenPin, NdB>>]).cache
    /\ shadcnRegistryData = EmptyMap
    /\ \E componentData \in AceternityPayloads(N3dHyphenPin) :
          LET tool == "scan_aceternity_component"
              key == componentNameKey[N3DPin]
              entry == NewAceternityIndexEntry(N3DPin, N3dHyphenPin, componentData, 1)
              stored == StoreComponent(MissingFile, EmptyMap, EmptyMap, "aceternity",
                                       key, N3dHyphenPin, componentData, entry, "ok")
          IN /\ inMemoryIndexCache = stored.cache
             /\ indexFile = stored.indexFile
             /\ payloadFiles = stored.payloadFiles
             /\ inflight = {Pending(tool, N3DPin, key, N3dHyphenPin, 0)}
             /\ lastOp = ScanResponse(tool, "ok", key, entry)
    /\ preRestart = NoScan
    /\ normIn = <<>>
    /\ normOut = <<>>

NextStore == Serve \/ ExternalIndexEdit

SpecStore == InitStore /\ [][NextStore]_vars

-----------------------------------------------------------------------------
(* Two scans of distinct components suspended together: a                  *)
(* scan_aceternity_component at its axios.get of the payload, and a        *)
(* scan_shadcn_component at the refresh of the empty shadcn registry cache *)

InitInterleave ==
    /\ pc = "serving"
    /\ aceternityRegistryData =
          refreshAceternityRegistryCache(
             EmptyMap, [kind |-> "array", body |-> <<N3dHyphenPin, NdB>>]).cache
    /\ shadcnRegistryData = EmptyMap
    /\ inMemoryIndexCache = EmptyMap
    /\ indexFile \in {MissingFile, CorruptFile}
    /\ payloadFiles = EmptyMap
    /\ inflight = {Pending("scan_aceternity_component", N3DPin,
                           componentNameKey[N3DPin], N3dHyphenPin, 1),
                   Pending("scan_shadcn_component", N3DPin, NoKey, <<>>, 0)}
    /\ lastOp = Response("list_shadcn_components", "empty", NoKey)
    /\ preRestart = NoScan
    /\ normIn = <<>>
    /\ normOut = <<>>

SpecInterleave == InitInterleave /\ [][Next]_vars

-----------------------------------------------------------------------------
(* The refreshes of main() run on a listing of two slugs in kebab case:    *)
(* normIn is the body both registries answer with, normOut the two keys    *)

InitListing ==
    /\ ServerInit
    /\ indexFile = MissingFile
    /\ \E s \in KebabSlugs, t \in KebabSlugs : normIn = <<s, t>>
    /\ normOut = <<>>

\* line 750: await refreshAceternityRegistryCache(), the registry listing normIn
RefreshListedAceternity ==
    /\ pc = "refreshA"
    /\ LET response == [kind |-> "array", body |-> normIn]
           refreshed == refreshAceternityRegistryCache(aceternityRegistryData, response)
       IN /\ aceternityRegistryData' = refreshed.cache
          /\ pc' = "refreshS"
          /\ lastOp' = Refreshed(Response("main", "refreshed", NoKey), refreshed.log)
    /\ normOut' = <<keyName[normIn[1]], keyName[normIn[2]]>>
    /\ UNCHANGED <<shadcnRegistryData, inMemoryIndexCache, indexFile, payloadFiles,
                   inflight, preRestart, normIn>>

\* line 751: await refreshShadcnRegistryCache(), the registry listing normIn
RefreshListedShadcn ==
    /\ pc = "refreshS"
    /\ LET response == [kind |-> "array",
                        body |-> <<ShadcnEntry(normIn[1], Undef, Undef),
                                   ShadcnEntry(normIn[2], Undef, Undef)>>]
           refreshed == refreshShadcnRegistryCache(shadcnRegistryData, response)
       IN /\ shadcnRegistryData' = refreshed.cache
          /\ pc' = "load"
          /\ lastOp' = Refreshed(Response("main", "refreshed", NoKey),
                                 lastOp.refresh \o refreshed.log)
    /\ UNCHANGED <<aceternityRegistryData, inMemoryIndexCache, indexFile, payloadFiles,
                   inflight, preRestart, normVars>>

NextListing == RefreshListedAceternity \/ RefreshListedShadcn

SpecListing == InitListing /\ [][NextListing]_vars

-----------------------------------------------------------------------------
(* The Markdown-storing server, src/src/index.ts: its registry cache is    *)
(* aceternityRegistryData, its harvestedComponents is inMemoryIndexCache,  *)
(* and harvested-components.md is one of payloadFiles.                     *)

MaxMarkdownEntries == 2

NRegistry == <<"r", "e", "g", "i", "s", "t", "r", "y">>

N3dPin2 == <<"3", "d", "-", "p", "i", "n", "2">>

NComponents == <<"C", "o", "m", "p", "o", "n", "e", "n", "t", "s">>

\* one a[href^="/components/"] of the listing page: the last segment of its
\* href, and the trimmed texts the three name strategies find in it, empty
\* where the element is missing
Link(slug, heading, child, own) ==
    [slug |-> slug, heading |-> heading, child |-> child, own |-> own]

\* the links cheerio selects in a body of https://ui.aceternity.com/registry
MdListings ==
    { <<>>,
      << Link(N3dHyphenPin, N3DPin, <<>>, <<>>), Link(NdB, <<>>, NdB, <<>>),
         Link(NComponents, NComponents, <<>>, <<>>) >>,
      << Link(N3dPin2, <<>>, <<>>, N3DPin), Link(<<>>, NdB, <<>>, <<>>),
         Link(NRegistry, NdB, <<>>, <<>>), Link(NdB, <<>>, <<>>, <<>>) >> }

\* what axios.get(registryUrl) gives the refresh: a rejection or a page
MdResponses == {FetchError} \cup {[kind |-> "html", body |-> l] : l \in MdListings}

\* the strategies with the direct child tried before the heading
MdLinkNameMutantChildFirst(link) == Or(link.child, Or(link.heading, link.own))

\* lines 69-76: the first strategy that finds a text names the component
MdLinkName(link) == Or(link.heading, Or(link.child, link.own))

\* s holds the characters t, in a row
IncludesChars(s, t) ==
    \E i \in 1..(Len(s) - Len(t) + 1) : SubSeq(s, i, i + Len(t) - 1) = t

\* line 79: the names that are no component
MdIsComponentName(name) ==
    LET lower == ToLowerCase(name)
    IN /\ ~Falsy(name)
       /\ lower # <<"a", "l", "l", " ", "c", "o", "m", "p", "o", "n", "e", "n", "t", "s">>
       /\ lower # <<"c", "o", "m", "p", "o", "n", "e", "n", "t", "s">>
       /\ ~IncludesChars(lower, <<"v", "i", "e", "w", " ", "a", "l", "l">>)

\* lines 57-89: the cache the links of a page give
MdRefreshFill(links) ==
    LET F[i \in 0..Len(links)] ==
          IF i = 0 THEN EmptyMap
          ELSE LET filled == F[i-1]
                   slug == links[i].slug
                   name == MdLinkName(links[i])
                   linkKey == StripSeparators(name)
               IN IF Falsy(slug) \/ slug = NRegistry THEN filled
                  ELSE IF MdIsComponentName(name) /\ ~Falsy(linkKey)
                  THEN Put(filled, linkKey, slug)
                  ELSE filled
    IN F[Len(links)]

\* refreshAceternityRegistryCache of index.ts, lines 37-99
MdRefreshAceternityRegistryCache(cache, response) ==
    IF response.kind = "error" THEN cache ELSE MdRefreshFill(response.body)

\* the componentName arguments of the requests
MdReqNames == ReqNames \cup {NdB}

\* line 176: componentNameKey, for each componentName a request can carry
MdComponentNameKey == [raw \in MdReqNames |-> StripSeparators(raw)]

MarkdownFilePath == <<"harvested-components.md">>

\* the entries of harvested-components.md
MarkdownEntries(files) ==
    IF MarkdownFilePath \in DOMAIN files THEN files[MarkdownFilePath].data ELSE <<>>

\* lines 233-257: the entry of a component; lines 284-291: the entry of a
\* failure
MarkdownEntry(name, url, scanDate, failed) ==
    [heading |-> name \o <<" (aceternity)">>
                   \o (IF failed THEN <<" - FAILED PROCESSING">> ELSE <<>>),
     url |-> url, scanned |-> scanDate]

\* lines 263-270
HarvestedComponent(raw, slug, componentData, scanDate) ==
    [name |-> Or(componentData.name, raw),
     source |-> "aceternity",
     url |-> <<"https://ui.aceternity.com/registry/">> \o slug \o <<".json">>,
     files |-> componentData.files,
     dependencies |-> componentData.dependencies,
     lastScanned |-> scanDate]

\* how the calls of the file system can end in a scan: all succeed, the
\* append throws and the entry of the failure is appended, or that throws too
MdStoreOutcomes == {"ok", "appendError", "appendErrorLogged"}

InitMarkdown ==
    /\ ServerInit
    /\ indexFile = MissingFile
    /\ normIn = <<>>
    /\ normOut = <<>>

\* main(), line 381: await refreshAceternityRegistryCache()
MdStartupRefresh ==
    /\ pc = "refreshA"
    /\ \E response \in MdResponses :
         /\ aceternityRegistryData' =
               MdRefreshAceternityRegistryCache(aceternityRegistryData, response)
         /\ lastOp' = Refreshed(Response("main", "refreshed", NoKey),
                                RefreshLog(response.kind, FALSE))
    /\ pc' = "connect"
    /\ UNCHANGED <<shadcnRegistryData, inMemoryIndexCache, indexFile, payloadFiles,
                   inflight, preRestart, normVars>>

\* scan_aceternity_component, lines 170-199: up to the await of axios.get
MdScanAceternityComponent(raw, url) ==
    /\ pc = "serving"
    /\ LET tool == "scan_aceternity_component"
           key == MdComponentNameKey[raw]
           slug == ResolveAceternitySlug(aceternityRegistryData, key)
       IN IF Falsy(raw)
          THEN Respond(Response(tool, "InvalidParams", NoKey))
          ELSE IF Falsy(slug)
          THEN IF Falsy(url)
               THEN Respond(Response(tool, "InvalidParams", key))
               ELSE Respond(Response(tool, "InternalError", key))
          ELSE /\ Len(MarkdownEntries(payloadFiles)) < MaxMarkdownEntries
               /\ \E scanDate \in 0..MaxClock :
                     Suspend(Pending(tool, raw, key, slug, scanDate))

\* lines 202-211: axios.get rejected; lines 222-224: it gave no data
MdScanFetchFailed(p) ==
    /\ pc = "serving"
    /\ p \in inflight
    /\ inflight' = inflight \ {p}
    /\ lastOp' = Response(p.tool, "InternalError", p.key)
    /\ UNCHANGED <<pc, aceternityRegistryData, shadcnRegistryData, inMemoryIndexCache,
                   indexFile, payloadFiles, preRestart, normVars>>

\* the component stored under the name as the request gave it
MdScanFetchedMutantRawKey(p, componentData, io) ==
    /\ pc = "serving"
    /\ p \in inflight
    /\ LET url == <<"https://ui.aceternity.com/registry/">> \o p.slug \o <<".json">>
           component == HarvestedComponent(p.raw, p.slug, componentData, p.scanDate)
           entries == MarkdownEntries(payloadFiles)
       IN CASE io = "ok" ->
                 /\ payloadFiles' =
                       Put(payloadFiles, MarkdownFilePath,
                           OkFile(Append(entries,
                                         MarkdownEntry(component.name, url,
                                                       p.scanDate, FALSE))))
                 /\ inMemoryIndexCache' =
                       Put(inMemoryIndexCache,
                           ComponentStorageKey("aceternity", p.raw), component)
                 /\ lastOp' = ScanResponse(p.tool, "ok", p.key, component)
            [] io = "appendErrorLogged" ->
                 /\ payloadFiles' =
                       Put(payloadFiles, MarkdownFilePath,
                           OkFile(Append(entries,
                                         MarkdownEntry(p.raw, url, p.scanDate, TRUE))))
                 /\ lastOp' = Response(p.tool, "InternalError", p.key)
                 /\ UNCHANGED inMemoryIndexCache
            [] OTHER ->
                 /\ lastOp' = Response(p.tool, "InternalError", p.key)
                 /\ UNCHANGED <<inMemoryIndexCache, payloadFiles>>
    /\ inflight' = inflight \ {p}
    /\ UNCHANGED <<pc, aceternityRegistryData, shadcnRegistryData, indexFile,
                   preRestart, normVars>>

\* lines 200-297: axios.get resolved
MdScanFetched(p, componentData, io) ==
    /\ pc = "serving"
    /\ p \in inflight
    /\ LET url == <<"https://ui.aceternity.com/registry/">> \o p.slug \o <<".json">>
           component == HarvestedComponent(p.raw, p.slug, componentData, p.scanDate)
           entries == MarkdownEntries(payloadFiles)
       IN CASE io = "ok" ->
                 /\ payloadFiles' =
                       Put(payloadFiles, MarkdownFilePath,
                           OkFile(Append(entries,
                                         MarkdownEntry(component.name, url,
                                                       p.scanDate, FALSE))))
                 /\ inMemoryIndexCache' =
                       Put(inMemoryIndexCache,
                           ComponentStorageKey("aceternity", p.key), component)
                 /\ lastOp' = ScanResponse(p.tool, "ok", p.key, component)
            [] io = "appendErrorLogged" ->
                 /\ payloadFiles' =
                       Put(payloadFiles, MarkdownFilePath,
                           OkFile(Append(entries,
                                         MarkdownEntry(p.raw, url, p.scanDate, TRUE))))
                 /\ lastOp' = Response(p.tool, "InternalError", p.key)
                 /\ UNCHANGED inMemoryIndexCache
            [] OTHER ->
                 /\ lastOp' = Response(p.tool, "InternalError", p.key)
                 /\ UNCHANGED <<inMemoryIndexCache, payloadFiles>>
    /\ inflight' = inflight \ {p}
    /\ UNCHANGED <<pc, aceternityRegistryData, shadcnRegistryData, indexFile,
                   preRestart, normVars>>

\* line 312: the line of the list for a component
MdHarvestedLine(c) ==
    <<"- ">> \o c.name \o <<" (from ", c.source, ", scanned ",
                            ToString(c.lastScanned), ")">>

\* list_harvested_components, lines 300-314
MdListHarvestedComponents(source) ==
    /\ pc = "serving"
    /\ LET listed == componentsToList(inMemoryIndexCache, source)
       IN Respond(WithLines(Response("list_harvested_components",
                                     IF listed = EmptyBag THEN "empty" ELSE "ok",
                                     NoKey),
                            {MdHarvestedLine(c) : c \in DOMAIN listed}))

\* lines 335-359: the prompt of get_aceternity_component_prompt
MdPrompt(component) ==
    <<"You are given a task to integrate the '">> \o component.name
       \o <<"' React component from Aceternity UI into your codebase.\n\n">>
       \o SetupText
       \o FileBlocks(component.files)
       \o (IF ~Falsy(component.dependencies) /\ Includes(component.dependencies, "cn")
           THEN <<"This component uses the 'cn' utility function. Ensure you have 'lib/utils.ts' set up by shadcn/ui, which typically contains:\n">>
                   \o CnText
           ELSE <<>>)
       \o <<"After adding the files, import and use the main component (e.g., '">>
       \o component.name \o <<"') in your application where needed.">>

\* get_aceternity_component_prompt, lines 316-363
MdGetComponentPrompt(raw) ==
    /\ pc = "serving"
    /\ LET tool == "get_aceternity_component_prompt"
           key == MdComponentNameKey[raw]
           lookupKey == ComponentStorageKey("aceternity", key)
       IN IF Falsy(raw)
          THEN Respond(Response(tool, "InvalidParams", NoKey))
          ELSE IF lookupKey \notin DOMAIN inMemoryIndexCache
          THEN Respond(WithText(Response(tool, "isError", key),
                                <<"Component '">> \o raw \o <<"' (normalized key: ">>
                                   \o key
                                   \o <<") from Aceternity not found. Try scanning it first.">>))
          ELSE Respond(WithText(Response(tool, "ok", key),
                                MdPrompt(inMemoryIndexCache[lookupKey])))

\* main(), lines 370-384
MdStartup == MdStartupRefresh \/ StartupConnect

\* the request handler, lines 168-368
MdServe ==
    \/ \E raw \in MdReqNames, url \in ReqURLs : MdScanAceternityComponent(raw, url)
    \/ \E p \in inflight : MdScanFetchFailed(p)
    \/ \E p \in inflight, io \in MdStoreOutcomes :
         \E componentData \in AceternityPayloads(p.slug) :
            MdScanFetched(p, componentData, io)
    \/ \E raw \in MdReqNames : MdGetComponentPrompt(raw)
    \/ \E source \in ReqSources : MdListHarvestedComponents(source)

NextMarkdown == MdStartup \/ Restart \/ MdServe

SpecMarkdown == InitMarkdown /\ [][NextMarkdown]_vars

-----------------------------------------------------------------------------
(* The refresh of the Markdown-storing server run on a listing page of at  *)
(* most MaxLinks links: normIn is the sequence of the links of the page    *)

MaxLinks == 2

\* links with and without a slug, a heading, a direct child and a text
BoundedLinks ==
    {Link(slug, heading, child, own) :
        slug \in {<<>>, NRegistry, NdB, N3dPin2},
        heading \in {<<>>, N3DPin, NComponents},
        child \in {<<>>, NdB},
        own \in {<<>>, N3DPin}}

InitMdListing ==
    /\ ServerInit
    /\ indexFile = MissingFile
    /\ normIn \in UNION {[1..n -> BoundedLinks] : n \in 0..MaxLinks}
    /\ normOut = <<>>

\* main(), line 381: await refreshAceternityRegistryCache(), the page normIn
MdRefreshListed ==
    /\ pc = "refreshA"
    /\ aceternityRegistryData' =
          MdRefreshAceternityRegistryCache(aceternityRegistryData,
                                           [kind |-> "html", body |-> normIn])
    /\ lastOp' = Refreshed(Response("main", "refreshed", NoKey), RefreshLog("html", FALSE))
    /\ pc' = "connect"
    /\ UNCHANGED <<shadcnRegistryData, inMemoryIndexCache, indexFile, payloadFiles,
                   inflight, preRestart, normVars>>

NextMdListing == MdRefreshListed \/ StartupConnect

SpecMdListing == InitMdListing /\ [][NextMdListing]_vars

-----------------------------------------------------------------------------
(* The key normaliser taken alone: a name s, a respelling t of it that     *)
(* differs in letter case and in the separator characters only, and the    *)
(* keys of both.                                                           *)

\* one character of each class the normaliser tells apart: lower-case
\* letter, upper-case letter, digit, whitespace, hyphen, period
NameAlphabet == {"a", "A", "3", " ", "-", "."}

BoundedNames == UNION {[1..n -> NameAlphabet] : n \in 0..MaxNameLen}

IsLetter(c) == ToLowerChar(c) # c \/ ToUpperChar(c) # c

FlipCase(c) == IF ToLowerChar(c) # c THEN ToLowerChar(c) ELSE ToUpperChar(c)

InitNorm ==
    /\ ServerInit
    /\ indexFile = MissingFile
    /\ \E s \in BoundedNames \cup {N3DPin} : normIn = <<s, s>>
    /\ normOut = <<>>

RespellCase(i) ==
    /\ normOut = <<>>
    /\ i \in 1..Len(normIn[2])
    /\ IsLetter(normIn[2][i])
    /\ normIn' = <<normIn[1], [normIn[2] EXCEPT ![i] = FlipCase(@)]>>
    /\ UNCHANGED <<serverVars, normOut>>

RespellSeparator(i, c) ==
    /\ normOut = <<>>
    /\ i \in 1..Len(normIn[2])
    /\ normIn[2][i] \in Separators
    /\ c # normIn[2][i]
    /\ normIn' = <<normIn[1], [normIn[2] EXCEPT ![i] = c]>>
    /\ UNCHANGED <<serverVars, normOut>>

NormalizeNames ==
    /\ normOut = <<>>
    /\ normOut' = <<NameKey(normIn[1]), NameKey(normIn[2])>>
    /\ UNCHANGED <<serverVars, normIn>>

NextNorm ==
    \/ \E i \in 1..Len(normIn[2]) : RespellCase(i)
    \/ \E i \in 1..Len(normIn[2]), c \in Separators : RespellSeparator(i, c)
    \/ NormalizeNames

SpecNorm == InitNorm /\ [][NextNorm]_vars

-----------------------------------------------------------------------------
(* Properties *)

ScanSucceeded == lastOp.tool \in ScanTools /\ lastOp.status = "ok"

\* the storage key of the scan that completed last
LastStorageKey == ComponentStorageKey(SourceOf(lastOp.tool), lastOp.key)

\* every record of the cache is in the index file, and equal to it there
MirrorOnDisk ==
    \A k \in DOMAIN inMemoryIndexCache :
        /\ indexFile.state = "ok"
        /\ k \in DOMAIN indexFile.data
        /\ indexFile.data[k] = inMemoryIndexCache[k]

\* a step in which a scan handler returns or throws
ScanCompletes ==
    \/ \E raw \in ReqNames, url \in ReqURLs :
          ScanAceternityComponent(raw, url) /\ inflight' = inflight
    \/ \E p \in inflight : ScanAceternityFetchFailed(p)
    \/ \E p \in inflight, io \in StoreOutcomes :
          \E componentData \in AceternityPayloads(p.slug) :
             ScanAceternityFetched(p, componentData, io)
    \/ \E raw \in ReqNames : ScanShadcnComponent(raw) /\ inflight' = inflight
    \/ \E p \in inflight :
          \E response \in RegistryResponses(ShadcnListings) :
             ScanShadcnRefreshed(p, response)

\* a step of scan_aceternity_component in which the write of the index file throws
IndexWriteFails ==
    \E p \in inflight, io \in {"indexWriteError", "indexWriteTorn"} :
       \E componentData \in AceternityPayloads(p.slug) :
          ScanAceternityFetched(p, componentData, io)

\* spellings of one component name
Spellings == {N3DPin, N3dHyphenPin, N3dSpacePin}

IsBlank(raw) == \A i \in 1..Len(raw) : raw[i] \in Whitespace

\* C1: after a successful scan the record of the cache under the scanned
\* "source:key" equals the record of the index file under that key
C1_MirrorEqualsIndexFile ==
    ScanSucceeded =>
       /\ LastStorageKey \in DOMAIN inMemoryIndexCache
       /\ indexFile.state = "ok"
       /\ LastStorageKey \in DOMAIN indexFile.data
       /\ inMemoryIndexCache[LastStorageKey] = indexFile.data[LastStorageKey]

C1_Witness ==
    /\ ScanSucceeded
    /\ LastStorageKey \in DOMAIN inMemoryIndexCache
    /\ Cardinality(DOMAIN indexFile.data) = 2

\* C2: right after a successful scan, the in-memory lookup of a prompt
\* handler, for any name that normalises to the scanned key, returns the
\* record the scan wrote
C2_LookupAfterUpsert ==
    ScanSucceeded =>
       \A name \in Spellings :
          NameKey(name) = lastOp.key =>
             LookupIndexedInfo(inMemoryIndexCache,
                ComponentStorageKey(SourceOf(lastOp.tool), NameKey(name))) = lastOp.rec

C2_Witness ==
    /\ ScanSucceeded
    /\ NameKey(N3dHyphenPin) = lastOp.key
    /\ lastOp.rec # NoRec

\* C3: a successful scan, then a restart and the load of the index file:
\* the lookup of the scanned identity returns the record it returned before
C3_LookupAfterRestart ==
    (lastOp.tool = "load" /\ preRestart.key # NoKey) =>
       LookupIndexedInfo(inMemoryIndexCache, preRestart.key) = preRestart.rec

C3_Witness ==
    /\ lastOp.tool = "load"
    /\ preRestart.key # NoKey
    /\ preRestart.key \in DOMAIN inMemoryIndexCache

\* C4: when the write of the index file fails during a scan, the scan is
\* reported as failed, the cache is what it was before the call, and no
\* record of the cache is missing from the index file
C4_IndexWriteFailure ==
    [][IndexWriteFails =>
         /\ lastOp'.status = "InternalError"
         /\ inMemoryIndexCache' = inMemoryIndexCache
         /\ MirrorOnDisk']_vars

\* C5: a scan that fails leaves the payload files, the index file and the
\* cache as they were before the call
C5_FailedScanLeavesNoTrace ==
    [][(ScanCompletes /\ lastOp'.status # "ok") =>
         UNCHANGED <<payloadFiles, indexFile, inMemoryIndexCache>>]_vars

\* C6: loadIndexIntoMemoryCache never raises; with the index file missing,
\* unreadable or unparsable the cache is empty afterwards and startup goes on
C6_LoadNeverRaises ==
    /\ pc # "exited"
    /\ (lastOp.tool = "load" /\ lastOp.status \in {"missing", "corrupt"}) =>
          /\ inMemoryIndexCache = EmptyMap
          /\ pc \in {"connect", "serving"}

C6_Witness ==
    /\ lastOp.tool = "load"
    /\ lastOp.status = "corrupt"
    /\ pc = "serving"

\* C7: normalising a key again yields the key
C7_NormalizeIdempotent ==
    normOut # <<>> => NameKey(normOut[1]) = normOut[1]

\* C8: every slug a refresh stores is stored under the key the handlers
\* compute from a request naming that slug
C8_RefreshKeyIsHandlerKey ==
    /\ \A k \in DOMAIN aceternityRegistryData :
          NameKey(aceternityRegistryData[k]) = k
    /\ \A k \in DOMAIN shadcnRegistryData :
          NameKey(shadcnRegistryData[k].name) = k

\* C9: names that differ only in letter case or in the separator characters
\* between their segments have the same key, "3D Pin", "3d-pin" and "3d pin"
\* among them
C9_SpellingsShareKey ==
    normOut # <<>> => normOut[1] = normOut[2]

C9_Witness ==
    /\ normIn = <<N3DPin, N3dHyphenPin>>
    /\ normOut # <<>>

\* C10: a componentName that is empty or all whitespace is rejected with
\* InvalidParams by every scan and prompt tool before a key is formed
C10_BlankNameRejected ==
    [][\A raw \in ReqNames :
          (/\ IsBlank(raw)
           /\ \/ \E url \in ReqURLs : ScanAceternityComponent(raw, url)
              \/ ScanShadcnComponent(raw)
              \/ \E source \in {"aceternity", "shadcn"} : GetComponentPrompt(source, raw))
          => (lastOp'.status = "InvalidParams" /\ lastOp'.key = NoKey)]_vars

-----------------------------------------------------------------------------
(* Properties of the registry caches and of startup *)

\* a step taken where a refresh of the aceternity cache can end: main()
\* awaits it
AceternityRefreshStep == pc = "refreshA"

\* a step taken where a refresh of the shadcn cache can end: main() awaits
\* it, or a handler leaves inflight and its response carries a refresh log
ShadcnRefreshStep ==
    \/ pc = "refreshS"
    \/ /\ pc = "serving"
       /\ lastOp'.refresh # NoRefresh
       /\ Cardinality(inflight') < Cardinality(inflight)

\* a step in which a refresh of the aceternity cache ends, its fetch having
\* given response
AceternityRefreshEnds(response) ==
    /\ AceternityRefreshStep
    /\ LET refreshed == refreshAceternityRegistryCache(aceternityRegistryData, response)
       IN /\ aceternityRegistryData' = refreshed.cache
          /\ lastOp'.refresh = refreshed.log
    /\ StartupRefreshAceternity

\* the same for the shadcn cache: the refresh of main(), or the one a
\* scan_shadcn_component awaited (the step of ScanShadcnRefreshed: the
\* handler leaves inflight and its response carries the log of the refresh)
ShadcnRefreshEnds(response) ==
    /\ ShadcnRefreshStep
    /\ LET refreshed == refreshShadcnRegistryCache(shadcnRegistryData, response)
       IN /\ shadcnRegistryData' = refreshed.cache
          /\ \/ /\ lastOp'.refresh = lastOp.refresh \o refreshed.log
                /\ StartupRefreshShadcn
             \/ /\ lastOp'.refresh = refreshed.log
                /\ \E p \in inflight : /\ p.tool = "scan_shadcn_component"
                                        /\ inflight' = inflight \ {p}

\* the fetch succeeded and the body could not be processed
ProcessingFails(response, names) ==
    \/ response.kind = "object"
    \/ response.kind = "array" /\ ThrowsAt(names) <= Len(names)

\* the keys a listing of names gives
ListingKeys(names) ==
    {keyName[names[i]] : i \in {j \in 1..Len(names) : ~Falsy(names[j])}}

\* a refresh of shadcn is in progress: a scan_shadcn_component awaits it
ShadcnRefreshInProgress == \E p \in inflight : p.tool = "scan_shadcn_component"

\* C11: a refresh whose fetch fails leaves the registry cache of its source
\* as it was
C11_FetchFailureKeepsCache ==
    [][/\ AceternityRefreshStep =>
            (AceternityRefreshEnds(FetchError) => UNCHANGED aceternityRegistryData)
       /\ ShadcnRefreshStep =>
            (ShadcnRefreshEnds(FetchError) => UNCHANGED shadcnRegistryData)]_vars

C11_Witness ==
    /\ lastOp.refresh = <<"fetchFailed">>
    /\ shadcnRegistryData # EmptyMap

\* C12: a refresh whose fetch succeeds and whose body cannot be processed
\* (not a listing, or an entry that throws) leaves the cache as it was
C12_ProcessFailureKeepsCache ==
    [][/\ \A response \in RegistryResponses(AceternityListings) :
            (ProcessingFails(response, response.body) /\ AceternityRefreshEnds(response))
               => UNCHANGED aceternityRegistryData
       /\ \A response \in RegistryResponses(ShadcnListings) :
            (ProcessingFails(response, ShadcnNames(response.body))
                /\ ShadcnRefreshEnds(response))
               => UNCHANGED shadcnRegistryData]_vars

\* C13: a refresh that succeeds takes the cache, in one step, from what it
\* held to exactly the entries of the new listing: every key of the listing
\* with its entry, and no other key
C13_RefreshReplacesCache ==
    [][/\ AceternityRefreshStep =>
          \A response \in RegistryResponses(AceternityListings) :
            (/\ response.kind = "array"
             /\ AceternityRefreshEnds(response)
             /\ ~ProcessingFails(response, response.body))
            => /\ DOMAIN aceternityRegistryData' = ListingKeys(response.body)
               /\ \A i \in 1..Len(response.body) :
                     ~Falsy(response.body[i]) =>
                        \E j \in i..Len(response.body) :
                           /\ keyName[response.body[j]] = keyName[response.body[i]]
                           /\ aceternityRegistryData'[keyName[response.body[i]]]
                                 = response.body[j]
       /\ ShadcnRefreshStep =>
          \A response \in RegistryResponses(ShadcnListings) :
            (/\ response.kind = "array"
             /\ ShadcnRefreshEnds(response)
             /\ ~ProcessingFails(response, ShadcnNames(response.body)))
            => /\ DOMAIN shadcnRegistryData' = ListingKeys(ShadcnNames(response.body))
               /\ \A i \in 1..Len(response.body) :
                     ~Falsy(response.body[i].name) =>
                        \E j \in i..Len(response.body) :
                           /\ keyName[response.body[j].name]
                                 = keyName[response.body[i].name]
                           /\ shadcnRegistryData'[keyName[response.body[i].name]]
                                 = response.body[j]]_vars

C13_Witness ==
    /\ lastOp.refresh = <<"ok">>
    /\ shadcnRegistryData = EmptyMap
    /\ \E k \in DOMAIN inMemoryIndexCache : inMemoryIndexCache[k].source = "shadcn"

\* C14: once the server serves requests, no step changes the contents of
\* aceternityRegistryData or shadcnRegistryData
C14_RegistryStaticWhileServing ==
    [][(pc = "serving" /\ pc' = "serving") =>
          UNCHANGED <<aceternityRegistryData, shadcnRegistryData>>]_vars

\* C15: no handler lists or looks up the registry cache of shadcn while a
\* refresh of it is in progress
C15_NoQueryDuringRefresh ==
    [][(\/ ListShadcnComponents
        \/ \E raw \in ReqNames : ~Falsy(raw) /\ ScanShadcnComponent(raw))
       => ~ShadcnRefreshInProgress]_vars

\* a startup refresh ends in failure: its fetch failed or its body could not
\* be processed
StartupRefreshFails ==
    \/ \E response \in RegistryResponses(AceternityListings) :
          /\ response.kind = "error" \/ ProcessingFails(response, response.body)
          /\ AceternityRefreshEnds(response)
    \/ \E response \in RegistryResponses(ShadcnListings) :
          /\ response.kind = "error"
                \/ ProcessingFails(response, ShadcnNames(response.body))
          /\ StartupRefreshShadcn
          /\ ShadcnRefreshEnds(response)

\* C16: startup reaches the serving state whatever the refreshes and the
\* load of the index do, and a refresh that fails leaves its cache empty or
\* as it was
C16_StartupReachesServing ==
    /\ <>(pc = "serving")
    /\ [][StartupRefreshFails =>
            /\ pc' # "exited"
            /\ aceternityRegistryData' \in {EmptyMap, aceternityRegistryData}
            /\ shadcnRegistryData' \in {EmptyMap, shadcnRegistryData}]_vars

-----------------------------------------------------------------------------
(* Properties of the scans and of the index *)

\* the form the not-found results of the handlers have: a result flagged
\* isError; a thrown McpError carries an error code instead
NotFoundResult(response) == response.status = "isError"

\* C17: scan_aceternity_component without componentURL, for a name whose key
\* is neither in the registry cache nor the hardcoded one, returns a
\* not-found result and leaves index file, payload files and cache unchanged
C17_UnknownNameNotFound ==
    [][\A raw \in ReqNames :
          (/\ ~IsBlank(raw)
           /\ Falsy(ResolveAceternitySlug(aceternityRegistryData, componentNameKey[raw]))
           /\ ScanAceternityComponent(raw, Undef))
          => /\ NotFoundResult(lastOp')
             /\ UNCHANGED <<indexFile, payloadFiles, inMemoryIndexCache>>]_vars

\* the slugs the registries can list
ListedSlugs == {N3dHyphenPin, NdB}

\* how many entries of list_harvested_components("all") are the component
\* slug of source
ListedTimes(cache, source, slug) ==
    LET list == componentsToList(cache, "all")
        same == {r \in DOMAIN list : r.source = source /\ r.slug = slug}
    IN BagCardinality([r \in same |-> list[r]])

SourcesPresent(cache) == {cache[k].source : k \in DOMAIN cache}

RECURSIVE ListsSum(_, _)
\* the lists of the sources given, put together
ListsSum(cache, sources) ==
    IF sources = {} THEN EmptyBag
    ELSE LET s == CHOOSE x \in sources : TRUE
         IN componentsToList(cache, s) (+) ListsSum(cache, sources \ {s})

\* C19: list_harvested_components("all") is the lists of the sources present
\* put together, each record once, and the list of a source holds records
\* of that source only
C19_ListAllIsUnionOfSources ==
    /\ componentsToList(inMemoryIndexCache, "all")
          = ListsSum(inMemoryIndexCache, SourcesPresent(inMemoryIndexCache))
    /\ \A r \in DOMAIN componentsToList(inMemoryIndexCache, "all") :
          componentsToList(inMemoryIndexCache, "all")[r] = 1
    /\ \A s \in {"aceternity", "shadcn"} :
          \A r \in DOMAIN componentsToList(inMemoryIndexCache, s) : r.source = s

C19_Witness ==
    /\ lastOp.tool = "list_harvested_components"
    /\ lastOp.status = "ok"
    /\ SourcesPresent(inMemoryIndexCache) = {"aceternity", "shadcn"}

\* the identities of the index file
FileKeys(file) == IF file.state = "ok" THEN DOMAIN file.data ELSE {}

\* C20: an identity of the index file stays in the index file, the load of
\* a restart puts every identity of the file into the cache, and an
\* identity of the cache stays in it while the server serves
C20_NeverDeleted ==
    [][/\ FileKeys(indexFile) \subseteq FileKeys(indexFile')
       /\ StartupLoadIndex => FileKeys(indexFile) \subseteq DOMAIN inMemoryIndexCache'
       /\ (pc = "serving" /\ pc' = "serving") =>
             DOMAIN inMemoryIndexCache \subseteq DOMAIN inMemoryIndexCache']_vars

-----------------------------------------------------------------------------
(* Properties of the index writes, of the read tools and of the prompts *)

\* the tools that read and do not store
ReadTools == {"get_aceternity_component_prompt", "get_shadcn_component_prompt",
              "list_harvested_components", "list_shadcn_components"}

\* a step in which a read tool returns or throws
ReadToolStep ==
    \/ \E source \in {"aceternity", "shadcn"}, raw \in ReqNames :
          GetComponentPrompt(source, raw)
    \/ \E source \in ReqSources : ListHarvestedComponents(source)
    \/ ListShadcnComponents

\* C23: the prompt tools and the list tools, whether they return a result,
\* return an error result or throw, leave the cache of the index, the index
\* file, the payload files and both registry caches as they were
C23_ReadToolsChangeNothing ==
    [][(lastOp'.tool \in ReadTools /\ ReadToolStep) =>
          UNCHANGED <<inMemoryIndexCache, indexFile, payloadFiles,
                      aceternityRegistryData, shadcnRegistryData>>]_vars

C23_Witness ==
    /\ lastOp.tool = "get_aceternity_component_prompt"
    /\ lastOp.status = "isError"
    /\ ComponentStorageKey("aceternity", lastOp.key) \in DOMAIN inMemoryIndexCache
    /\ indexFile.state = "ok"

\* the pieces s stand in text from position i on
OccursAt(text, s, i) ==
    /\ i + Len(s) - 1 <= Len(text)
    /\ SubSeq(text, i, i + Len(s) - 1) = s

RECURSIVE InOrder(_, _, _)
\* every one of parts stands in text, whole, from position from on, the
\* parts one after another
InOrder(text, parts, from) ==
    \/ Len(parts) = 0
    \/ \E i \in from..Len(text) :
          /\ OccursAt(text, parts[1], i)
          /\ InOrder(text, Tail(parts), i + Len(parts[1]))

\* the target path and the content of every file, in the order of the files
FileParts(files) ==
    LET F[i \in 0..Len(files)] ==
          IF i = 0 THEN <<>>
          ELSE F[i-1] \o <<files[i].path, files[i].content>>
    IN F[Len(files)]

\* C24: right after a scan_aceternity_component that succeeded,
\* get_aceternity_component_prompt for a name of the scanned identity returns
\* a prompt in which, for every file of the payload fetched (the one payload
\* the registry serves for the slug), in the order of the payload, the
\* target path and the content of the file stand as they were fetched
C24_PromptHasFilesVerbatim ==
    (lastOp.tool = "scan_aceternity_component" /\ lastOp.status = "ok") =>
       \A raw \in ReqNames :
          (~Falsy(raw) /\ componentNameKey[raw] = lastOp.key) =>
             LET response == PromptResponse("aceternity", raw,
                                            inMemoryIndexCache, payloadFiles)
             IN /\ response.status = "ok"
                /\ \A componentData \in AceternityPayloads(lastOp.rec.slug) :
                      InOrder(response.text, FileParts(componentData.files), 1)

C24_Witness ==
    /\ lastOp.tool = "get_aceternity_component_prompt"
    /\ lastOp.status = "ok"
    /\ \E componentData \in AceternityPayloads(N3dHyphenPin) :
          /\ Len(componentData.files) = 2
          /\ InOrder(lastOp.text, FileParts(componentData.files), 1)

\* the pieces s stand somewhere in text
Occurs(text, s) == \E i \in 1..Len(text) : OccursAt(text, s, i)

\* the installation command of the shadcn CLI for a slug, as a prompt shows it
CliCommand(slug) == <<"'''bash\nnpx shadcn-ui@latest add ">> \o slug \o <<"\n'''\n\n">>

\* a content that is the placeholder comment, which names the file and the
\* CLI command that would add it, and no source text
IsPlaceholder(content, f, slug) ==
    content = <<"// Content for ">> \o f
                 \o <<" is typically added by 'npx shadcn-ui@latest add ">>
                 \o slug \o <<"'">>

\* C25: right after a scan_shadcn_component that succeeded, every file of
\* the payload it persisted carries the placeholder content for its path,
\* and get_shadcn_component_prompt for a name of the scanned identity
\* returns a prompt with the CLI installation command for the slug of the
\* registry entry scanned
C25_ShadcnPlaceholderAndCommand ==
    (lastOp.tool = "scan_shadcn_component" /\ lastOp.status = "ok") =>
       /\ lastOp.key \in DOMAIN shadcnRegistryData
       /\ lastOp.rec.filePath \in DOMAIN payloadFiles
       /\ LET registryEntry == shadcnRegistryData[lastOp.key]
              payload == payloadFiles[lastOp.rec.filePath]
          IN /\ payload.state = "ok"
             /\ Len(payload.data.files) = Len(registryEntry.files)
             /\ \A i \in 1..Len(registryEntry.files) :
                   /\ payload.data.files[i].path = registryEntry.files[i]
                   /\ IsPlaceholder(payload.data.files[i].content,
                                    registryEntry.files[i], registryEntry.name)
             /\ \A raw \in ReqNames :
                   (~Falsy(raw) /\ componentNameKey[raw] = lastOp.key) =>
                      LET response == PromptResponse("shadcn", raw,
                                                     inMemoryIndexCache, payloadFiles)
                      IN /\ response.status = "ok"
                         /\ Occurs(response.text, CliCommand(registryEntry.name))

C25_Witness ==
    /\ lastOp.tool = "get_shadcn_component_prompt"
    /\ lastOp.status = "ok"
    /\ Occurs(lastOp.text, CliCommand(N3dHyphenPin))
    /\ \E path \in DOMAIN payloadFiles :
          /\ payloadFiles[path].state = "ok"
          /\ Len(payloadFiles[path].data.files) = 1
          /\ IsPlaceholder(payloadFiles[path].data.files[1].content,
                           <<"ui/">> \o N3dHyphenPin \o <<".tsx">>, N3dHyphenPin)

\* the line list_shadcn_components shows for a key and the slug of its entry
ShadcnLine(key, slug) == key \o <<" (slug: ">> \o slug \o <<")">>

\* C29: the list of list_shadcn_components has one line for every key of
\* shadcnRegistryData, showing the key and the slug of its entry, and no
\* other line, whatever the index holds
C29_ListShadcnIsRegistry ==
    lastOp.tool = "list_shadcn_components" =>
       /\ \A key \in DOMAIN shadcnRegistryData :
             ShadcnLine(key, shadcnRegistryData[key].name) \in lastOp.lines
       /\ \A line \in lastOp.lines :
             \E key \in DOMAIN shadcnRegistryData :
                line = ShadcnLine(key, shadcnRegistryData[key].name)
       /\ Cardinality(lastOp.lines) = Cardinality(DOMAIN shadcnRegistryData)
       /\ lastOp.status = IF DOMAIN shadcnRegistryData = {} THEN "empty" ELSE "ok"

C29_Witness ==
    /\ lastOp.tool = "list_shadcn_components"
    /\ Cardinality(lastOp.lines) = 2
    /\ Cardinality({k \in DOMAIN shadcnRegistryData :
                       ComponentStorageKey("shadcn", k) \in DOMAIN inMemoryIndexCache}) = 1

PromptTools == {"get_aceternity_component_prompt", "get_shadcn_component_prompt"}

PromptSource(tool) ==
    IF tool = "get_shadcn_component_prompt" THEN "shadcn" ELSE "aceternity"

\* C30: a prompt tool asked for a name whose identity the index of its
\* source does not hold returns a result flagged isError that says the
\* component was not found in the index; it neither throws nor returns a
\* prompt
C30_UnindexedNameNotFound ==
    (/\ lastOp.tool \in PromptTools
     /\ lastOp.key # NoKey
     /\ ComponentStorageKey(PromptSource(lastOp.tool), lastOp.key)
           \notin DOMAIN inMemoryIndexCache)
    => /\ NotFoundResult(lastOp)
       /\ Occurs(lastOp.text, <<") not found in index. Try scanning it first.">>)
       /\ ~Occurs(lastOp.text, <<"You are given a task to integrate the '">>)

C30_Witness ==
    /\ lastOp.tool = "get_shadcn_component_prompt"
    /\ NotFoundResult(lastOp)
    /\ lastOp.key = componentNameKey[N3DPin]
    /\ ComponentStorageKey("aceternity", lastOp.key) \in DOMAIN inMemoryIndexCache
    /\ ComponentStorageKey("shadcn", lastOp.key) \notin DOMAIN inMemoryIndexCache

\* C27: when the fetch of the payload fails, scan_aceternity_component
\* fetches no second time: the handler ends in that step, throwing an
\* McpError that names the failure, and the step that ends the fetch of a
\* scan, failed or not, leaves no request of that scan in flight and starts
\* none
C27_FetchOnceNoRetry ==
    [][(lastOp'.tool = "scan_aceternity_component" /\ inflight # {}) =>
          \A p \in inflight :
             /\ (p.tool = "scan_aceternity_component"
                   /\ ScanAceternityFetchFailed(p)) =>
                   /\ inflight' = inflight \ {p}
                   /\ lastOp'.status = "InternalError"
                   /\ lastOp'.rec = NoRec
             /\ (p.tool = "scan_aceternity_component" /\ p \notin inflight') =>
                   inflight' = inflight \ {p}]_vars

C27_Witness ==
    /\ lastOp.tool = "scan_aceternity_component"
    /\ lastOp.status = "InternalError"
    /\ Occurs(lastOp.text, <<" Axios error: ">>)
    /\ inflight = {}
    /\ payloadFiles = EmptyMap

\* a step in which a scan stores its record and returns
ScanStores ==
    /\ lastOp'.tool \in ScanTools
    /\ lastOp'.status = "ok"
    /\ ScanCompletes

\* C21: a scan that succeeds writes the index file as the file it found with
\* its own record put under its key: every other record of the file stays
\* as it was, records the cache does not hold among them, and no key comes
\* into the file from the cache
C21_IndexWriteMergesFile ==
    [][ScanStores =>
          LET storageKey == ComponentStorageKey(SourceOf(lastOp'.tool), lastOp'.key)
          IN /\ indexFile'.state = "ok"
             /\ DOMAIN indexFile'.data = FileKeys(indexFile) \cup {storageKey}
             /\ \A k \in FileKeys(indexFile) \ {storageKey} :
                   indexFile'.data[k] = indexFile.data[k]
             /\ indexFile'.data[storageKey] = lastOp'.rec]_vars

C21_Witness ==
    /\ ScanSucceeded
    /\ ForeignKey \in FileKeys(indexFile)
    /\ ForeignKey \notin DOMAIN inMemoryIndexCache
    /\ LastStorageKey \in FileKeys(indexFile)
    /\ \E k \in DOMAIN inMemoryIndexCache : k \notin FileKeys(indexFile)

\* C22: the record a successful scan writes is, after the write, the record
\* of its identity in the cache and in the index file, whatever record they
\* held, one with a later lastScanned included (two scans of one identity,
\* both in flight: the one that writes last wins); and a scan that writes the
\* record cache and file already hold for its identity leaves both unchanged
C22_UpsertIdempotentLastWins ==
    [][ScanStores =>
          LET storageKey == ComponentStorageKey(SourceOf(lastOp'.tool), lastOp'.key)
          IN /\ storageKey \in DOMAIN inMemoryIndexCache'
             /\ inMemoryIndexCache'[storageKey] = lastOp'.rec
             /\ indexFile'.state = "ok"
             /\ storageKey \in DOMAIN indexFile'.data
             /\ indexFile'.data[storageKey] = lastOp'.rec
             /\ (/\ storageKey \in DOMAIN inMemoryIndexCache
                 /\ inMemoryIndexCache[storageKey] = lastOp'.rec
                 /\ storageKey \in FileKeys(indexFile)
                 /\ indexFile.data[storageKey] = lastOp'.rec)
                => UNCHANGED <<inMemoryIndexCache, indexFile>>]_vars

C22_Witness ==
    /\ inflight = {}
    /\ lastOp.tool = "scan_aceternity_component"
    /\ lastOp.status = "ok"
    /\ lastOp.rec.lastScanned = 0
    /\ inMemoryIndexCache[LastStorageKey].lastScanned = 0
    /\ indexFile.state = "ok"
    /\ LastStorageKey \in DOMAIN indexFile.data
    /\ indexFile.data[LastStorageKey].lastScanned = 0

\* the text of a prompt result says that the index lacks the key
SaysNotInIndex(response) ==
    Occurs(response.text, <<") not found in index. Try scanning it first.">>)

\* the lines list_harvested_components shows for the records of an index
\* that pass the filter
LinesOf(index, source) ==
    {HarvestedLine(index[k]) :
        k \in {j \in DOMAIN index :
                  source \in {"", "all"} \/ index[j].source = source}}

\* C28: a prompt request finds its record exactly when the cache holds its
\* key, and list_harvested_components lists exactly the records of the cache
\* that pass its filter, whatever the index file holds at that time: a
\* record only the file holds is neither found nor listed, a record only the
\* cache holds is both
C28_LookupsFromMirrorOnly ==
    /\ (lastOp.tool \in PromptTools /\ lastOp.key # NoKey) =>
          (SaysNotInIndex(lastOp) <=>
              ComponentStorageKey(PromptSource(lastOp.tool), lastOp.key)
                 \notin DOMAIN inMemoryIndexCache)
    /\ lastOp.tool = "list_harvested_components" =>
          /\ \E source \in ReqSources :
                lastOp.lines = LinesOf(inMemoryIndexCache, source)
          /\ \A k \in FileKeys(indexFile) \ DOMAIN inMemoryIndexCache :
                HarvestedLine(indexFile.data[k]) \notin lastOp.lines
          /\ (lastOp.status = "empty") = (lastOp.lines = {})

C28_Witness ==
    /\ lastOp.tool = "list_harvested_components"
    /\ lastOp.status = "ok"
    /\ ForeignKey \in FileKeys(indexFile)
    /\ ForeignKey \notin DOMAIN inMemoryIndexCache
    /\ \E k \in DOMAIN inMemoryIndexCache :
          /\ k \notin FileKeys(indexFile)
          /\ HarvestedLine(inMemoryIndexCache[k]) \in lastOp.lines

\* C26: the hardcoded slug never shadows the registry cache: a scan awaiting
\* its fetch fetches the slug the cache has for the key of the request
\* whenever the cache has one, and fetches the hardcoded slug only for the
\* hardcoded key when the cache has none
C26_OverrideNeverShadowsCache ==
    \A p \in inflight :
        IF p.key \in DOMAIN aceternityRegistryData
        THEN p.slug = aceternityRegistryData[p.key]
        ELSE p.key = HardcodedKey /\ p.slug = HardcodedSlug

\* a scan of "3D Pin" awaits the fetch of the slug the cache has for 3DPin,
\* which is not the hardcoded one
C26_Witness ==
    \E p \in inflight :
        /\ p.key = HardcodedKey
        /\ p.key \in DOMAIN aceternityRegistryData
        /\ p.slug = aceternityRegistryData[p.key]
        /\ p.slug # HardcodedSlug

-----------------------------------------------------------------------------
(* Properties of the Markdown-storing server and of the stores *)

MdStorageKey(key) == ComponentStorageKey("aceternity", key)

\* C31: in the Markdown-storing server a component a successful
\* scan_aceternity_component stored stays in harvestedComponents while the
\* process serves, get_aceternity_component_prompt with a name of the same
\* key answers with its prompt, and list_harvested_components, unfiltered or
\* filtered to aceternity, lists it
C31_StoredStaysAvailable ==
    /\ [](lastOp.tool = "scan_aceternity_component" /\ lastOp.status = "ok" /\ pc = "serving"
             => /\ MdStorageKey(lastOp.key) \in DOMAIN inMemoryIndexCache
                /\ inMemoryIndexCache[MdStorageKey(lastOp.key)].name = lastOp.rec.name)
    /\ [][pc = "serving" /\ pc' = "serving"
             => DOMAIN inMemoryIndexCache \subseteq DOMAIN inMemoryIndexCache']_vars
    /\ [](lastOp.tool = "get_aceternity_component_prompt" /\ lastOp.key # NoKey
             /\ MdStorageKey(lastOp.key) \in DOMAIN inMemoryIndexCache
             => /\ lastOp.status = "ok"
                /\ lastOp.text = MdPrompt(inMemoryIndexCache[MdStorageKey(lastOp.key)]))
    /\ [][inMemoryIndexCache # EmptyMap
             => \A source \in {"", "all", "aceternity"} :
                   MdListHarvestedComponents(source)
                      => \A k \in DOMAIN inMemoryIndexCache :
                            MdHarvestedLine(inMemoryIndexCache[k]) \in lastOp'.lines]_vars

\* the prompt of a component a scan stored is given
C31_Witness ==
    /\ lastOp.tool = "get_aceternity_component_prompt"
    /\ lastOp.status = "ok"
    /\ MdStorageKey(lastOp.key) \in DOMAIN inMemoryIndexCache
    /\ Cardinality(DOMAIN inMemoryIndexCache) = 2

\* the record of the scan that completed last is in the index file and in
\* the cache, under its key
LastScanStored(op, file, cache) ==
    LET storageKey == ComponentStorageKey(SourceOf(op.tool), op.key)
    IN /\ file.state = "ok"
       /\ storageKey \in DOMAIN file.data
       /\ file.data[storageKey] = op.rec
       /\ storageKey \in DOMAIN cache
       /\ cache[storageKey] = op.rec

\* C32: when a scan succeeds and the next handler to answer is a scan of
\* another "source:key" that succeeds too, whichever of them was suspended
\* at its network await meanwhile, the index file and the cache each hold
\* the records of both afterwards
C32_InterleavedScansKeepBoth ==
    [][(/\ lastOp'.tool \in ScanTools
        /\ lastOp'.status = "ok"
        /\ lastOp.tool \in ScanTools
        /\ lastOp.status = "ok"
        /\ ComponentStorageKey(SourceOf(lastOp.tool), lastOp.key)
              # ComponentStorageKey(SourceOf(lastOp'.tool), lastOp'.key))
          => /\ LastScanStored(lastOp', indexFile', inMemoryIndexCache')
             /\ LastScanStored(lastOp, indexFile', inMemoryIndexCache')]_vars

\* the scan_aceternity_component that was suspended from the start succeeds
\* after the scan_shadcn_component did, and both records are in the index
\* file and in the cache
C32_Witness ==
    /\ lastOp.tool = "scan_aceternity_component"
    /\ lastOp.status = "ok"
    /\ lastOp.rec.lastScanned = 1
    /\ LastScanStored(lastOp, indexFile, inMemoryIndexCache)
    /\ ComponentStorageKey("shadcn", componentNameKey[N3DPin]) \in DOMAIN inMemoryIndexCache
    /\ ComponentStorageKey("shadcn", componentNameKey[N3DPin]) \in FileKeys(indexFile)
    /\ Cardinality(FileKeys(indexFile)) = 2

\* C33: the step in which a scan_aceternity_component answers that the fetch
\* of its payload failed throws an McpError InternalError that carries no
\* record, and leaves the cache, the index file and every payload file as
\* they were
C33_FailedFetchChangesNothing ==
    [][(/\ lastOp'.tool = "scan_aceternity_component"
        /\ inflight' # inflight
        /\ Occurs(lastOp'.text, <<" Axios error: ">>))
          => /\ lastOp'.status = "InternalError"
             /\ lastOp'.rec = NoRec
             /\ inMemoryIndexCache' = inMemoryIndexCache
             /\ indexFile' = indexFile
             /\ payloadFiles' = payloadFiles]_vars

\* the fetch of a scan failed after an earlier scan had stored a component,
\* which is still in the cache, in the index file and in its payload file
C33_Witness ==
    /\ lastOp.tool = "scan_aceternity_component"
    /\ lastOp.status = "InternalError"
    /\ Occurs(lastOp.text, <<" Axios error: ">>)
    /\ inMemoryIndexCache # EmptyMap
    /\ indexFile.state = "ok"
    /\ MirrorOnDisk
    /\ \E path \in DOMAIN payloadFiles : payloadFiles[path].state = "ok"

\* C34: after the refreshes of a listing of two distinct slugs, the two keys
\* differ, each slug is in each registry cache under its key, and each cache
\* has as many entries as the listing has distinct slugs
C34_RegistryKeysDoNotCollide ==
    pc = "load" =>
       /\ normIn[1] # normIn[2] => normOut[1] # normOut[2]
       /\ \A i \in 1..2 :
             /\ normOut[i] \in DOMAIN aceternityRegistryData
             /\ aceternityRegistryData[normOut[i]] = normIn[i]
             /\ normOut[i] \in DOMAIN shadcnRegistryData
             /\ shadcnRegistryData[normOut[i]].name = normIn[i]
       /\ Cardinality(DOMAIN aceternityRegistryData) = Cardinality({normIn[1], normIn[2]})
       /\ Cardinality(DOMAIN shadcnRegistryData) = Cardinality({normIn[1], normIn[2]})

\* C35: when a scan has returned success, the filePath of its record is
\* <source>/<slug>.json and the payload file of that path parses and holds
\* the payload of the scan; every record of the cache names a payload file
\* that exists, and no prompt tool answers that the data file was not found
C35_RecordPointsAtPayload ==
    /\ ScanSucceeded =>
          LET source == SourceOf(lastOp.tool)
              path == ComponentJsonFilePath(source, lastOp.rec.slug)
          IN /\ lastOp.rec.filePath = path
             /\ path \in DOMAIN payloadFiles
             /\ payloadFiles[path].state = "ok"
             /\ payloadFiles[path].data.name = lastOp.rec.slug
             /\ IF source = "aceternity"
                THEN payloadFiles[path].data \in
                        {JsonComponentData(d) : d \in AceternityPayloads(lastOp.rec.slug)}
                ELSE /\ payloadFiles[path].data.author = "shadcn"
                     /\ payloadFiles[path].data.title = lastOp.rec.name
    /\ \A k \in DOMAIN inMemoryIndexCache :
          inMemoryIndexCache[k].filePath \in DOMAIN payloadFiles
    /\ lastOp.tool \in PromptTools /\ lastOp.text # NoText =>
          lastOp.text[1] \notin {"Component data file not found at ",
                                 "Shadcn component data file not found at "}

\* a scan_shadcn_component has returned success after a
\* scan_aceternity_component did, and the payload files of both exist
C35_Witness ==
    /\ ScanSucceeded
    /\ lastOp.tool = "scan_shadcn_component"
    /\ lastOp.rec.filePath \in DOMAIN payloadFiles
    /\ payloadFiles[lastOp.rec.filePath].state = "ok"
    /\ Cardinality(DOMAIN inMemoryIndexCache) = 2

\* C36: when the Aceternity registry cache has no entry for the key of
\* "3D Pin", a scan_aceternity_component of "3D Pin" goes on to fetch the
\* payload of the hardcoded slug 3d-pin: the handler is suspended at that
\* fetch and does not answer that the name is not in the registry
C36_HardcodedOverrideResolves ==
    [][(pc = "serving" /\ componentNameKey[N3DPin] \notin DOMAIN aceternityRegistryData)
          => \A url \in ReqURLs :
                ScanAceternityComponent(N3DPin, url)
                   => \E p \in inflight' \ inflight :
                         p.raw = N3DPin /\ p.slug = HardcodedSlug]_vars

\* C37: the key either server forms from a name holds no whitespace, no
\* hyphen and no period, whatever the name
C37_KeyHasNoSeparator ==
    normOut # <<>> =>
       \A j \in 1..2 :
          /\ \A i \in 1..Len(normOut[j]) : normOut[j][i] \notin Separators
          /\ \A i \in 1..Len(StripSeparators(normIn[j])) :
                StripSeparators(normIn[j])[i] \notin Separators

\* the keys of a name with a hyphen and a period in it, which are not empty
C37_Witness ==
    /\ normOut # <<>>
    /\ \E i \in 1..Len(normIn[2]) : normIn[2][i] = "-"
    /\ \E i \in 1..Len(normIn[2]) : normIn[2][i] = "."
    /\ normOut[2] # <<>>
    /\ StripSeparators(normIn[2]) # <<>>

RegistryCallOut == <<"\nThis component has registry dependencies: ">>

ExternalCallOut == <<"\nThis component also has external npm dependencies: ">>

FirstName(link) ==
    IF link.heading # <<>> THEN link.heading
    ELSE IF link.child # <<>> THEN link.child
    ELSE link.own

\* a link the refresh does not skip: it has a slug other than "registry" and
\* a strategy finds a name
LinkIsNamed(link) ==
    /\ link.slug # <<>>
    /\ link.slug # NRegistry
    /\ FirstName(link) # <<>>

====
